---------------------------- MODULE Spec2Model ----------------------------
(***************************************************************************)
(* Model of the dashboard's list views: the debounced search hook, the     *)
(* users table (filter state, URL synchronisation, pagination) and the     *)
(* nodes list (local-search fallback, page clamp).                         *)
(*                                                                         *)
(* React semantics used throughout: an event handler runs against the      *)
(* values of the last render, its state updates are applied, the component *)
(* re-renders and the effects whose dependencies changed run; this repeats *)
(* until nothing changes.  One action of the model is one event together   *)
(* with the renders and effects it causes.                                 *)
(***************************************************************************)
EXTENDS Integers, Sequences, FiniteSets, TLC

(***************************************************************************)
(* JavaScript values.  `undefined` for an optional string is the token     *)
(* Undef; an optional array that is undefined is the empty sequence (every *)
(* writer of admin/group normalises [] to undefined and every reader       *)
(* treats both alike).  NaN is a sentinel outside the range of every       *)
(* number the model produces; the arithmetic below propagates it the way   *)
(* JavaScript does.                                                        *)
(***************************************************************************)
Undef == "<undefined>"

NaN == -1000

\* JavaScript truthiness of an optional string: undefined and '' are falsy.
Truthy(s) == s # Undef /\ s # ""

\* value || undefined
OrUndef(s) == IF Truthy(s) THEN s ELSE Undef

\* value || ''
OrEmpty(s) == IF Truthy(s) THEN s ELSE ""

\* a - b, a * b, Math.max(0, a), a > b with NaN propagation
JsSub(a, b) == IF a = NaN \/ b = NaN THEN NaN ELSE a - b

JsMul(a, b) == IF a = NaN \/ b = NaN THEN NaN ELSE a * b

JsMax0(a) == IF a = NaN THEN NaN ELSE IF a > 0 THEN a ELSE 0

JsGt(a, b) == a # NaN /\ b # NaN /\ a > b

\* The decimal numerals of 0..60, numeral n at index n + 1.
Numerals ==
  <<"0", "1", "2", "3", "4", "5", "6", "7", "8", "9", "10", "11", "12",
     "13", "14", "15", "16", "17", "18", "19", "20", "21", "22", "23",
     "24", "25", "26", "27", "28", "29", "30", "31", "32", "33", "34",
     "35", "36", "37", "38", "39", "40", "41", "42", "43", "44", "45",
     "46", "47", "48", "49", "50", "51", "52", "53", "54", "55", "56",
     "57", "58", "59", "60">>

\* parseInt(s, 10) on the strings the model uses: a numeral gives its number,
\* "-1" gives -1, and a string that starts with no digit gives NaN.
NumeralValue ==
  [s \in {Numerals[i] : i \in 1..Len(Numerals)} |->
     CHOOSE n \in 0..60 : Numerals[n + 1] = s]

ParseInt(s) ==
  IF s \in DOMAIN NumeralValue THEN NumeralValue[s]
  ELSE IF s = "-1" THEN -1 ELSE NaN

\* Number.prototype.toString on the numbers the model uses.
NumToString(n) ==
  IF n \in 0..60 THEN Numerals[n + 1]
  ELSE IF n = -1 THEN "-1" ELSE "NaN"

\* Math.ceil(a / b) for a >= 0, b > 0
CeilDiv(a, b) == (a + b - 1) \div b

(***************************************************************************)
(* State.                                                                  *)
(***************************************************************************)
\* What the user can type into the search box.
SearchInputs == {"", "a", "b", "ab", "ba"}

NoTimer == "<no timer>"

\* The debounce delay, 300 ms, in ticks of 100 ms.
DebounceTicks == 3

\* The history counter of calls in a burst saturates here.
MaxBurst == 2

VARIABLES
  \* useDebouncedSearch: one instance, owned by the list's filter bar
  search,                 \* the immediate value echoed to the input
  debouncedSearch,        \* the committed value, Undef until a commit
  pending,                \* the debounce timer: NoTimer, or the value it holds
  remaining,              \* ticks until the debounce timer is due
  mounted,                \* the owning component is mounted
  burst,                  \* history: setSearch calls since the timer last expired
  commits                 \* history: commits since the last setSearch call

hookVars == <<search, debouncedSearch, pending, remaining, mounted, burst, commits>>

VARIABLES
  \* UsersTable and its Filters bar
  url,                       \* the query parameters of window.location.hash
  pref,                      \* the persisted users-per-page preference
  phase,                     \* "constructed" (first render done) or "mounted"
  currentPage,
  itemsPerPage,
  filters,
  isInitializingFromURLRef,  \* the mount guard
  isSorting,                 \* the sort lock
  usersTotal,                \* usersData?.total || 0
  guardEvents,               \* events handled while the mount guard is set
  prevDebouncedSearchRef     \* Filters: the last debounced value handed on

VARIABLES
  \* UsersTable: the users query and what the table derives from it
  usersIsChangingPage,       \* UsersTable's isChangingPage
  usersIsFetching,           \* useGetUsers: isFetching
  usersHasData,              \* useGetUsers: data is defined
  usersIsFirstLoadRef,       \* isFirstLoadRef
  usersIsAutoRefreshingRef,  \* isAutoRefreshingRef
  usersPageLoadingShown,     \* isPageLoading as the last render computed it
  pageChangeInFlight         \* history: the fetch a page change issued is running

usersFetchVars == <<usersIsChangingPage, usersIsFetching, usersHasData,
                    usersIsFirstLoadRef, usersIsAutoRefreshingRef,
                    usersPageLoadingShown, pageChangeInFlight>>

usersVars == <<url, pref, phase, currentPage, itemsPerPage, filters,
               isInitializingFromURLRef, isSorting, usersTotal, guardEvents,
               prevDebouncedSearchRef, usersFetchVars>>

VARIABLES
  \* NodesList and its NodeFilters bar
  nodesPhase,                \* "absent", "constructed" (first render done) or "mounted"
  nodesCurrentPage,          \* NodesList's currentPage
  isChangingPage,
  wasFetchingRef,
  allNodes,
  localSearchTerm,
  nodesFilters,              \* NodesList's filters, the key of the nodes query
  nodesResponse,             \* useGetNodes: data
  isFetching                 \* useGetNodes: isFetching

nodesVars == <<nodesPhase, nodesCurrentPage, isChangingPage, wasFetchingRef, allNodes,
               localSearchTerm, nodesFilters, nodesResponse, isFetching>>

VARIABLES
  \* PaginationControls / NodePaginationControls: one render
  windowCurrentPage,         \* the currentPage prop
  windowTotalPages,          \* the totalPages prop
  paginationRange            \* getPaginationRange(currentPage, totalPages)

windowVars == <<windowCurrentPage, windowTotalPages, paginationRange>>

\* The run of header clicks on the users table that is being followed.
VARIABLES
  headerClicks               \* the column clicked, the sort before the run, the clicks accepted

sortVars == <<headerClicks>>

\* The relative-time text rendered last.
VARIABLES
  timeFormatter,             \* the formatter that rendered it
  timeNow,                   \* dayjs() at the render, in seconds
  timeInstant,               \* the instant it was given, in seconds
  timeText                   \* what it rendered

timeVars == <<timeFormatter, timeNow, timeInstant, timeText>>

\* The users filter bar's auto-refresh: its timer and the visibility listener.
VARIABLES
  filtersMounted,            \* whether the Filters bar is mounted
  autoRefreshInterval,       \* Filters' autoRefreshInterval, in seconds, 0 = off
  persistedInterval,         \* the persisted auto-refresh interval preference
  visibilityState,           \* document.visibilityState
  intervalTimers,            \* the live setInterval timers, by their period in seconds
  refetchCalls               \* the refetchUsers calls not yet settled, by isAutoRefresh

refreshVars == <<filtersMounted, autoRefreshInterval, persistedInterval, visibilityState,
                 intervalTimers, refetchCalls>>

\* The subscription-settings form's last invalid submit.
VARIABLES
  formErrors,                \* the errors the resolver handed to onInvalid
  toasts                     \* the texts of the error toasts shown, in order

formVars == <<formErrors, toasts>>

\* The bulk operations wizard (BulkFlow).
VARIABLES
  wizard,                    \* BulkFlow's props and state, by their names
  bulkMutation               \* the mutation's status and the payload it was given

bulkVars == <<wizard, bulkMutation>>

\* The state of the forms and of the filter bar's timers.
panelVars == <<refreshVars, formVars, bulkVars>>

\* The state of the display helpers, which the list views' events leave alone.
displayVars == <<windowVars, sortVars, timeVars, panelVars>>

vars == <<hookVars, usersVars, nodesVars, displayVars>>

(***************************************************************************)
(* useDebouncedSearch(initialValue, delay).  es-toolkit's debounce holds   *)
(* at most one timer: a call replaces the held arguments and restarts the  *)
(* timer, the timer's expiry invokes the function with the held arguments, *)
(* cancel() drops the timer.                                               *)
(***************************************************************************)
HookInit(initialValue) ==
  /\ search = initialValue
  /\ debouncedSearch = Undef
  /\ pending = NoTimer
  /\ remaining = 0
  /\ mounted = TRUE
  /\ burst = 0
  /\ commits = 0

\* A debounced callback that commits the value as it was passed.
CommittedValueAsPassed(value) == value

\* The value the debounced callback commits: setDebouncedSearch(value || undefined)
CommittedValue(value) == OrUndef(value)

\* A debounce that does not replace the held arguments of a running timer.
HookSetSearchKeepFirst(value) ==
  /\ mounted
  /\ search' = value
  /\ pending' = IF pending = NoTimer THEN value ELSE pending
  /\ UNCHANGED <<debouncedSearch, mounted>>

\* handleSearchChange(value): setSearch(value); debouncedSearchRef.current(value)
\* (the call replaces the held arguments and restarts the timer)
HookSetSearch(value) ==
  /\ mounted
  /\ search' = value
  /\ pending' = value
  /\ UNCHANGED <<debouncedSearch, mounted>>

\* The timer expires: the debounced callback runs with the held value.
HookTimerFires ==
  /\ pending # NoTimer
  /\ debouncedSearch' = CommittedValue(pending)
  /\ pending' = NoTimer
  /\ UNCHANGED <<search, mounted>>

\* A cleanup that leaves the timer running.
HookKeepTimerOnUnmount == pending

\* The effect's cleanup on unmount: debouncedSearchRef.current.cancel()
HookCancelOnUnmount == NoTimer

HookUnmount ==
  /\ mounted
  /\ mounted' = FALSE
  /\ pending' = HookCancelOnUnmount
  /\ UNCHANGED <<search, debouncedSearch>>

\* The timing and the history of the hook, left alone by the list views, which
\* let the timer expire at any time after it was set.
clockVars == <<remaining, burst, commits>>

(***************************************************************************)
(* The hook on its own, with the 300 ms delay counted in ticks.            *)
(***************************************************************************)
\* The users table is not part of this specification.
UsersAbsent ==
  /\ url = Undef /\ pref = 0 /\ phase = "absent"
  /\ currentPage = 0 /\ itemsPerPage = 0 /\ filters = Undef
  /\ isInitializingFromURLRef = FALSE /\ isSorting = FALSE
  /\ usersTotal = 0 /\ guardEvents = 0 /\ prevDebouncedSearchRef = Undef
  /\ usersIsChangingPage = FALSE /\ usersIsFetching = FALSE /\ usersHasData = FALSE
  /\ usersIsFirstLoadRef = FALSE /\ usersIsAutoRefreshingRef = FALSE
  /\ usersPageLoadingShown = FALSE /\ pageChangeInFlight = FALSE

\* Nor is the nodes list.
NodesAbsent ==
  /\ nodesPhase = "absent" /\ nodesCurrentPage = 0
  /\ isChangingPage = FALSE /\ wasFetchingRef = FALSE
  /\ allNodes = <<>> /\ localSearchTerm = ""
  /\ nodesFilters = Undef /\ nodesResponse = Undef /\ isFetching = FALSE

\* No pagination control is rendered on its own.
WindowAbsent ==
  /\ windowCurrentPage = 0 /\ windowTotalPages = 0 /\ paginationRange = <<>>

\* No run of header clicks is followed.
NoHeaderClicks == [column |-> "", before |-> "", count |-> 0]

SortAbsent == headerClicks = NoHeaderClicks

\* A text: the status label of an expiry date, a state such as 'online', or
\* the units of a duration, followed by 'ago' or not.
NoText == [status |-> "", state |-> "", parts |-> <<>>, ago |-> FALSE]

\* No instant has been formatted.
TimeAbsent == timeFormatter = "" /\ timeNow = 0 /\ timeInstant = 0 /\ timeText = NoText

RefreshAbsent ==
  /\ filtersMounted = FALSE
  /\ autoRefreshInterval = 0
  /\ persistedInterval = 0
  /\ visibilityState = "visible"
  /\ intervalTimers = <<>>
  /\ refetchCalls = <<>>

\* A value of the errors structure: undefined, a string, an array or an object
\* whose items are its elements or its own keys in order.
Undefined == [kind |-> "undefined", text |-> "", items |-> <<>>]

FormAbsent == formErrors = Undefined /\ toasts = <<>>

NoPayload ==
  [group_ids |-> <<>>, has_group_ids |-> <<>>, users |-> <<>>, admins |-> <<>>,
   flow |-> Undef, method |-> Undef]

\* BulkFlow's state after useState: step 1, nothing entered, nothing selected.
NewWizard(operationType) ==
  [operationType |-> operationType, currentStep |-> 1,
   selectedFlow |-> Undef, selectedMethod |-> Undef, groupsOperation |-> "add",
   selectedGroups |-> <<>>, selectedUsers |-> <<>>, selectedAdmins |-> <<>>,
   selectedHasGroups |-> <<>>, showConfirmDialog |-> FALSE]

BulkAbsent ==
  /\ wizard = NewWizard("")
  /\ bulkMutation = [status |-> "idle", payload |-> NoPayload]

PanelAbsent == RefreshAbsent /\ FormAbsent /\ BulkAbsent

DisplayAbsent == WindowAbsent /\ SortAbsent /\ TimeAbsent /\ PanelAbsent

InitDebounce ==
  /\ \E initialValue \in SearchInputs : HookInit(initialValue)
  /\ UsersAbsent
  /\ NodesAbsent
  /\ DisplayAbsent

\* The calls of the burst a call belongs to, that call included.
BurstAfterCall ==
  IF pending = NoTimer THEN 1
  ELSE IF burst < MaxBurst THEN burst + 1 ELSE MaxBurst

SetSearch ==
  \E value \in SearchInputs :
    /\ HookSetSearch(value)
    /\ remaining' = DebounceTicks
    /\ burst' = BurstAfterCall
    /\ commits' = 0
    /\ UNCHANGED <<usersVars, nodesVars, displayVars>>

Tick ==
  /\ pending # NoTimer
  /\ remaining > 0
  /\ remaining' = remaining - 1
  /\ UNCHANGED <<search, debouncedSearch, pending, mounted, burst, commits>>
  /\ UNCHANGED <<usersVars, nodesVars, displayVars>>

TimerFires ==
  /\ remaining = 0
  /\ HookTimerFires
  /\ commits' = commits + 1
  /\ UNCHANGED <<remaining, burst>>
  /\ UNCHANGED <<usersVars, nodesVars, displayVars>>

Unmount ==
  /\ HookUnmount
  /\ remaining' = 0
  /\ UNCHANGED <<burst, commits>>
  /\ UNCHANGED <<usersVars, nodesVars, displayVars>>

NextDebounce == SetSearch \/ Tick \/ TimerFires \/ Unmount

SpecDebounce == InitDebounce /\ [][NextDebounce]_vars

C18_UnmountCancelsPending ==
  /\ [](~mounted => pending = NoTimer)
  /\ [][ ~mounted => debouncedSearch' = debouncedSearch ]_vars
  /\ [][ (mounted /\ ~mounted') => debouncedSearch' = debouncedSearch ]_vars

\* The component unmounted while the update to 'ab' was pending: the update
\* was never committed.
C18_Witness ==
  /\ ~mounted /\ burst > 0 /\ commits = 0 /\ pending = NoTimer
  /\ search = "ab" /\ debouncedSearch = Undef


(***************************************************************************)
(* The users table: URL parsing and encoding.                              *)
(*                                                                         *)
(* A URLSearchParams object is a record: a single-valued parameter is its  *)
(* string or Undef (get() returned null), admin and group are the lists    *)
(* getAll() returns.                                                       *)
(***************************************************************************)
DefaultSort == "-created_at"

validStatuses == {"active", "disabled", "limited", "expired", "on_hold"}

NotNaN(n) == n # NaN

MapParseInt(strings) == [i \in 1..Len(strings) |-> ParseInt(strings[i])]

MapToString(numbers) == [i \in 1..Len(numbers) |-> NumToString(numbers[i])]

\* The 1-indexed page of the URL as the 0-indexed internal page.
PageFromParam(pageParam) ==
  IF Truthy(pageParam) THEN JsMax0(JsSub(ParseInt(pageParam), 1)) ELSE 0

parseURLParams(searchParams, defaultItemsPerPage) ==
  LET page == PageFromParam(searchParams.page)
      limit == ParseInt(IF Truthy(searchParams.limit) THEN searchParams.limit
                        ELSE NumToString(defaultItemsPerPage))
      statusParam == searchParams.status
  IN  [page |-> JsMax0(page),
       limit |-> IF JsGt(limit, 0) THEN limit ELSE defaultItemsPerPage,
       sort |-> IF Truthy(searchParams.sort) THEN searchParams.sort ELSE DefaultSort,
       search |-> OrUndef(searchParams.search),
       status |-> IF Truthy(statusParam) /\ statusParam \in validStatuses
                  THEN statusParam ELSE Undef,
       admin |-> SelectSeq(searchParams.admin, Truthy),
       group |-> SelectSeq(MapParseInt(searchParams.group), NotNaN),
       isProtocol |-> (searchParams.is_protocol = "true")]

\* The view state a mount on searchParams starts from.
getInitialStateFromURL(searchParams, perPagePreference) ==
  LET urlParams == parseURLParams(searchParams, perPagePreference)
  IN  [page |-> urlParams.page,
       limit |-> urlParams.limit,
       filters |->
         [limit |-> urlParams.limit,
          sort |-> urlParams.sort,
          load_sub |-> TRUE,
          offset |-> JsMul(urlParams.page, urlParams.limit),
          search |-> urlParams.search,
          proxy_id |-> IF urlParams.isProtocol /\ Truthy(urlParams.search)
                       THEN urlParams.search ELSE Undef,
          is_protocol |-> urlParams.isProtocol,
          status |-> OrUndef(urlParams.status),
          admin |-> urlParams.admin,
          group |-> urlParams.group]]

\* The page parameter the State->URL effect writes.
PageParam(page) == IF JsGt(page, 0) THEN NumToString(page + 1) ELSE Undef

\* The parameters the State->URL effect builds from the view state.
StateToURL(st, perPagePreference) ==
  LET f == st.filters
  IN  [page |-> PageParam(st.page),
       limit |-> IF st.limit # perPagePreference THEN NumToString(st.limit) ELSE Undef,
       sort |-> IF Truthy(f.sort) /\ f.sort # DefaultSort THEN f.sort ELSE Undef,
       search |-> IF Truthy(f.proxy_id) THEN f.proxy_id
                  ELSE IF Truthy(f.search) THEN f.search ELSE Undef,
       is_protocol |-> IF Truthy(f.proxy_id) \/ f.is_protocol THEN "true" ELSE Undef,
       status |-> IF Truthy(f.status) THEN f.status ELSE Undef,
       admin |-> f.admin,
       group |-> MapToString(f.group)]

\* The dependencies of the State->URL effect.
UrlDeps(st) ==
  <<st.page, st.limit, st.filters.sort, st.filters.search, st.filters.proxy_id,
    st.filters.is_protocol, st.filters.status, st.filters.admin, st.filters.group>>

(***************************************************************************)
(* The users table: the handlers, as functions of the view state           *)
(* st = [page, limit, filters] they run against.                           *)
(***************************************************************************)
\* handleFilterChange({search: newSearch, offset: 0})
handleFilterChange(st, newSearch) ==
  LET prev == st.filters
      searchChanged == newSearch # prev.search /\ newSearch # prev.proxy_id
      updated ==
        IF searchChanged
        THEN IF prev.is_protocol
             THEN [prev EXCEPT !.proxy_id = newSearch, !.search = Undef, !.offset = 0]
             ELSE [prev EXCEPT !.search = newSearch, !.proxy_id = Undef, !.offset = 0]
        ELSE [prev EXCEPT !.search = newSearch]
      resetPage == newSearch # Undef /\ newSearch # prev.search
                   /\ newSearch # prev.proxy_id
  IN  [st EXCEPT !.filters = updated, !.page = IF resetPage THEN 0 ELSE @]

\* handleHashChange, past its guard
handleHashChange(st, searchParams) ==
  LET urlParams == parseURLParams(searchParams, st.limit)
      f == st.filters
      f1 == IF urlParams.sort # f.sort THEN [f EXCEPT !.sort = urlParams.sort] ELSE f
      f2 == IF urlParams.search # f.search /\ urlParams.search # f.proxy_id
            THEN IF urlParams.isProtocol
                 THEN [f1 EXCEPT !.proxy_id = urlParams.search, !.search = Undef,
                                 !.is_protocol = TRUE]
                 ELSE [f1 EXCEPT !.search = urlParams.search, !.proxy_id = Undef,
                                 !.is_protocol = FALSE]
            ELSE f1
      f3 == IF urlParams.status # f.status THEN [f2 EXCEPT !.status = urlParams.status]
            ELSE f2
      f4 == IF urlParams.admin # f.admin THEN [f3 EXCEPT !.admin = urlParams.admin]
            ELSE f3
      f5 == IF urlParams.group # f.group THEN [f4 EXCEPT !.group = urlParams.group]
            ELSE f4
  IN  [page |-> IF urlParams.page # st.page THEN urlParams.page ELSE st.page,
       limit |-> IF urlParams.limit # st.limit THEN urlParams.limit ELSE st.limit,
       filters |-> f5]

\* Sort keys: a column, or the column with the descending marker '-'.
ColumnNames == {"username", "expire", "created_at"}

Descending(column) ==
  CASE column = "username" -> "-username"
    [] column = "expire" -> "-expire"
    [] column = "created_at" -> "-created_at"

StartsWithDash(key) == \E c \in ColumnNames : key = Descending(c)

CleanColumn(key) ==
  IF StartsWithDash(key) THEN CHOOSE c \in ColumnNames : key = Descending(c) ELSE key

\* A header cycle of two states, without the descending one.
NewSortTwoState(sort, column, fromDropdown) ==
  LET cleanColumn == CleanColumn(column)
  IN  IF fromDropdown
      THEN IF StartsWithDash(column)
           THEN IF sort = Descending(cleanColumn) THEN DefaultSort
                ELSE Descending(cleanColumn)
           ELSE IF sort = cleanColumn THEN DefaultSort ELSE cleanColumn
      ELSE IF sort = cleanColumn \/ sort = Descending(cleanColumn) THEN DefaultSort
           ELSE cleanColumn

\* handleSort's newSort
NewSort(sort, column, fromDropdown) ==
  LET cleanColumn == CleanColumn(column)
  IN  IF fromDropdown
      THEN IF StartsWithDash(column)
           THEN IF sort = Descending(cleanColumn) THEN DefaultSort
                ELSE Descending(cleanColumn)
           ELSE IF sort = cleanColumn THEN DefaultSort ELSE cleanColumn
      ELSE IF sort = cleanColumn THEN Descending(cleanColumn)
           ELSE IF sort = Descending(cleanColumn) THEN DefaultSort
           ELSE cleanColumn

handleSort(st, column, fromDropdown) ==
  [st EXCEPT !.filters.sort = NewSort(st.filters.sort, column, fromDropdown)]

handleStatusFilter(st, value) ==
  [st EXCEPT !.filters.status = IF value = "0" \/ value = "" THEN Undef ELSE value,
             !.filters.offset = 0,
             !.page = 0]

handleAdvanceSearchSubmit(st, values) ==
  [st EXCEPT !.filters.admin = values.admin,
             !.filters.group = values.group,
             !.filters.status = IF Truthy(values.status) /\ values.status # "0"
                                THEN values.status ELSE Undef,
             !.filters.is_protocol = values.is_protocol,
             !.filters.offset = 0,
             !.page = 0]

onClearAdvanceSearch(st) ==
  [st EXCEPT !.filters.admin = <<>>,
             !.filters.group = <<>>,
             !.filters.status = Undef,
             !.filters.offset = 0,
             !.page = 0]

handlePageChange(st, newPage) == [st EXCEPT !.page = newPage]

handleItemsPerPageChange(st, value) == [st EXCEPT !.limit = value, !.page = 0]

\* The offset sync effect, which runs when currentPage or itemsPerPage changed.
OffsetSync(before, after) ==
  IF after.page # before.page \/ after.limit # before.limit
  THEN [after EXCEPT !.filters.limit = after.limit,
                     !.filters.offset = JsMul(after.page, after.limit)]
  ELSE after

\* hasActiveAdvanceFilters()
hasActiveAdvanceFilters ==
  Len(filters.admin) > 0 \/ Len(filters.group) > 0 \/ filters.status # Undef

totalPages == CeilDiv(usersTotal, itemsPerPage)

(***************************************************************************)
(* The users table: what the environment supplies.                         *)
(***************************************************************************)
\* Values of the query parameters of a URL the table is opened on or
\* navigated to, valid and invalid.
PageParams == {Undef, "2", "abc"}

LimitParams == {Undef, "20", "0"}

SortParams == {Undef, "username"}

SearchParams == {Undef, "a"}

ProtocolParams == {Undef, "true"}

\* The sort, the status and the repeated admin and group parameters: all
\* absent, all well-formed, or carrying an unknown status and empty and
\* non-numeric list entries.
FacetParams ==
  {[sort |-> Undef, status |-> Undef, admin |-> <<>>, group |-> <<>>],
   [sort |-> "username", status |-> "active", admin |-> <<"x">>, group |-> <<"1">>],
   [sort |-> Undef, status |-> "bogus", admin |-> <<"x", "">>, group |-> <<"1", "zz">>]}

\* The URLs the table is opened on.
UrlSpace ==
  {[page |-> p, limit |-> l, sort |-> f.sort, search |-> q, status |-> f.status,
    is_protocol |-> i, admin |-> f.admin, group |-> f.group] :
     p \in PageParams, l \in LimitParams, q \in SearchParams,
     i \in ProtocolParams, f \in FacetParams}

\* A navigation while the table is open: one parameter of the URL u is
\* removed or given a well-formed value.
UrlEdits(u) ==
  {[u EXCEPT !.page = v] : v \in {Undef, "2"}} \cup
  {[u EXCEPT !.limit = v] : v \in {Undef, "20"}} \cup
  {[u EXCEPT !.sort = v] : v \in SortParams} \cup
  {[u EXCEPT !.search = v] : v \in SearchParams} \cup
  {[u EXCEPT !.status = v] : v \in {Undef, "active"}} \cup
  {[u EXCEPT !.is_protocol = v] : v \in ProtocolParams} \cup
  {[u EXCEPT !.admin = f.admin, !.group = f.group] :
     f \in {[admin |-> <<>>, group |-> <<>>], [admin |-> <<"x">>, group |-> <<"1">>]}}

\* The persisted users-per-page preference when the table is opened.
InitialPreference == 10

\* The page sizes of the items-per-page select.
PageSizes == {10, 20}

\* What the user types into the users search box.
UsersSearchInputs == {"", "a"}

\* The totals the server reports.
UsersTotals == {5, 15}

\* The Next button is followed no further than this page.
MaxPage == 1

\* The events the table handles in the 100 ms the mount guard lasts.
MaxGuardEvents == 1

\* The values an advanced-search submit carries: an empty form or a filled
\* one, searching by username or by protocol.
AdvanceSearchValues ==
  {[admin |-> f.admin, group |-> f.group, status |-> f.status, is_protocol |-> i] :
     f \in {[admin |-> <<>>, group |-> <<>>, status |-> "0"],
            [admin |-> <<"x">>, group |-> <<1>>, status |-> "active"]},
     i \in BOOLEAN}

(***************************************************************************)
(* The users table: mount, events and effects.                             *)
(***************************************************************************)
ViewState == [page |-> currentPage, limit |-> itemsPerPage, filters |-> filters]

\* An event (a click, a key, a navigation, an expired debounce timer) reaches
\* the mounted table; the nodes list is on another page.
Event ==
  /\ phase = "mounted"
  /\ isInitializingFromURLRef => guardEvents < MaxGuardEvents
  /\ guardEvents' = IF isInitializingFromURLRef THEN guardEvents + 1 ELSE guardEvents
  /\ UNCHANGED <<usersFetchVars, nodesVars, displayVars>>

\* A re-render whose State->URL effect does not look at the mount guard.
RenderUnguarded(next, rerunUrlEffect, urlNow, prefNow, guardNow) ==
  \E updated \in {next} :
    \E after \in {OffsetSync(ViewState, updated)} :
      /\ currentPage' = after.page
      /\ itemsPerPage' = after.limit
      /\ filters' = after.filters
      /\ url' = IF (rerunUrlEffect \/ UrlDeps(after) # UrlDeps(ViewState))
                THEN StateToURL(after, prefNow)
                ELSE urlNow

\* The state updates `next` of an event are applied and the table re-renders:
\* the offset sync effect runs, and the State->URL effect runs if one of its
\* dependencies changed (rerunUrlEffect: one of them is a new array), unless
\* the mount guard is set.
Render(next, rerunUrlEffect, urlNow, prefNow, guardNow) ==
  \E updated \in {next} :
    \E after \in {OffsetSync(ViewState, updated)} :
      /\ currentPage' = after.page
      /\ itemsPerPage' = after.limit
      /\ filters' = after.filters
      /\ url' = IF ~guardNow /\ (rerunUrlEffect \/ UrlDeps(after) # UrlDeps(ViewState))
                THEN StateToURL(after, prefNow)
                ELSE urlNow

\* The Filters effect on debouncedSearch: hand a changed value on.
FiltersSearchEffect(st, debounced) ==
  IF debounced # prevDebouncedSearchRef
  THEN handleFilterChange(st, OrEmpty(debounced))
  ELSE st

\* The status of the users query is not followed: a fetch may complete at
\* any time and the pagination controls are never disabled.
UsersFetchUntracked ==
  /\ usersIsChangingPage = FALSE /\ usersIsFetching = FALSE /\ usersHasData = FALSE
  /\ usersIsFirstLoadRef = FALSE /\ usersIsAutoRefreshingRef = FALSE
  /\ usersPageLoadingShown = FALSE /\ pageChangeInFlight = FALSE

\* The first render: useState initialisers read the URL.
InitUsers ==
  /\ url \in UrlSpace
  /\ pref = InitialPreference
  /\ phase = "constructed"
  /\ LET initialState == getInitialStateFromURL(url, pref)
     IN  /\ currentPage = initialState.page
         /\ itemsPerPage = initialState.limit
         /\ filters = initialState.filters
         /\ HookInit(OrEmpty(initialState.filters.search))
         /\ prevDebouncedSearchRef = OrUndef(initialState.filters.search)
  /\ isInitializingFromURLRef = FALSE
  /\ isSorting = FALSE
  /\ usersTotal = 0
  /\ guardEvents = 0
  /\ UsersFetchUntracked
  /\ NodesAbsent
  /\ DisplayAbsent

\* The mount effects, the children's first: the Filters effect on
\* debouncedSearch, then the mount guard, the State->URL effect (which the
\* guard stops) and the offset sync.
Mount ==
  /\ phase = "constructed"
  /\ phase' = "mounted"
  /\ isInitializingFromURLRef' = TRUE
  /\ prevDebouncedSearchRef' = debouncedSearch
  /\ Render(FiltersSearchEffect(ViewState, debouncedSearch), FALSE, url, pref, TRUE)
  /\ UNCHANGED <<pref, isSorting, usersTotal, guardEvents, hookVars, usersFetchVars, nodesVars, displayVars>>

\* 100 ms after mount the guard's timer clears it.
MountGuardExpires ==
  /\ phase = "mounted"
  /\ isInitializingFromURLRef
  /\ isInitializingFromURLRef' = FALSE
  /\ guardEvents' = 0
  /\ UNCHANGED <<url, pref, phase, currentPage, itemsPerPage, filters, isSorting,
                 usersTotal, prevDebouncedSearchRef, hookVars, usersFetchVars, nodesVars, displayVars>>

TypeSearch ==
  \E value \in UsersSearchInputs :
    /\ Event
    /\ HookSetSearch(value)
    /\ UNCHANGED <<clockVars, url, pref, phase, currentPage, itemsPerPage, filters,
                   isInitializingFromURLRef, isSorting, usersTotal,
                   prevDebouncedSearchRef>>

\* The debounce timer expires; the Filters effect hands a changed value on.
SearchCommitted ==
  /\ Event
  /\ HookTimerFires
  /\ prevDebouncedSearchRef' = CommittedValue(pending)
  /\ Render(FiltersSearchEffect(ViewState, CommittedValue(pending)), FALSE, url, pref,
            isInitializingFromURLRef)
  /\ UNCHANGED <<clockVars, pref, phase, isInitializingFromURLRef, isSorting, usersTotal>>

\* clearSearch: the X button, rendered while the box is not empty
ClearSearch ==
  /\ Event
  /\ Truthy(search)
  /\ HookSetSearch("")
  /\ Render(handleFilterChange(ViewState, ""), FALSE, url, pref, isInitializingFromURLRef)
  /\ UNCHANGED <<clockVars, pref, phase, isInitializingFromURLRef, isSorting, usersTotal,
                 prevDebouncedSearchRef>>

\* A handler that accepts a click whatever the lock says.
SortLockIgnored == TRUE

\* handleSort's first line, if (isSorting) return: a click is handled only
\* while the lock is free.
SortLockFree == ~isSorting

SortClicked ==
  \E column \in {"username", "-username"}, fromDropdown \in BOOLEAN :
    /\ Event
    /\ fromDropdown \/ ~StartsWithDash(column)
    /\ SortLockFree
    /\ isSorting' = TRUE
    /\ Render(handleSort(ViewState, column, fromDropdown), FALSE, url, pref,
              isInitializingFromURLRef)
    /\ UNCHANGED <<pref, phase, isInitializingFromURLRef, usersTotal,
                   prevDebouncedSearchRef, hookVars>>

\* setTimeout(() => setIsSorting(false), 100)
SortLockExpires ==
  /\ isSorting
  /\ isSorting' = FALSE
  /\ UNCHANGED <<url, pref, phase, currentPage, itemsPerPage, filters,
                 isInitializingFromURLRef, usersTotal, guardEvents,
                 prevDebouncedSearchRef, hookVars, usersFetchVars, nodesVars, displayVars>>

StatusFilterChosen ==
  \E value \in {"0", "active"} :
    /\ Event
    /\ Render(handleStatusFilter(ViewState, value), FALSE, url, pref,
              isInitializingFromURLRef)
    /\ UNCHANGED <<pref, phase, isInitializingFromURLRef, isSorting, usersTotal,
                   prevDebouncedSearchRef, hookVars>>

\* The arrays of a submit are the form's; whether they are the arrays the
\* filters already hold is not decided here, so the State->URL effect may or
\* may not see a changed dependency when their contents are unchanged.
AdvanceSearchSubmitted ==
  \E values \in AdvanceSearchValues, newArrays \in BOOLEAN :
    /\ Event
    /\ newArrays => Len(values.admin) > 0 \/ Len(values.group) > 0
    /\ Render(handleAdvanceSearchSubmit(ViewState, values), newArrays, url, pref,
              isInitializingFromURLRef)
    /\ UNCHANGED <<pref, phase, isInitializingFromURLRef, isSorting, usersTotal,
                   prevDebouncedSearchRef, hookVars>>

\* The clear button, rendered while an advanced filter is active
AdvanceSearchCleared ==
  /\ Event
  /\ hasActiveAdvanceFilters
  /\ Render(onClearAdvanceSearch(ViewState), FALSE, url, pref, isInitializingFromURLRef)
  /\ UNCHANGED <<pref, phase, isInitializingFromURLRef, isSorting, usersTotal,
                 prevDebouncedSearchRef, hookVars>>

\* The pages the pagination controls offer: a page link, Previous, Next.
\* (On a NaN page Previous and Next ask for NaN again, which changes nothing.)
OfferedPages ==
  (0..(totalPages - 1)) \cup
  (IF currentPage # NaN /\ currentPage # 0 THEN {currentPage - 1} ELSE {}) \cup
  (IF currentPage # NaN /\ currentPage # totalPages - 1 /\ totalPages # 0
      /\ currentPage < MaxPage
   THEN {currentPage + 1} ELSE {})

PageChosen ==
  \E newPage \in OfferedPages :
    /\ Event
    /\ newPage # currentPage
    /\ Render(handlePageChange(ViewState, newPage), FALSE, url, pref,
              isInitializingFromURLRef)
    /\ UNCHANGED <<pref, phase, isInitializingFromURLRef, isSorting, usersTotal,
                   prevDebouncedSearchRef, hookVars>>

ItemsPerPageChosen ==
  \E value \in PageSizes :
    /\ Event
    /\ pref' = value
    /\ Render(handleItemsPerPageChange(ViewState, value), FALSE, url, value,
              isInitializingFromURLRef)
    /\ UNCHANGED <<phase, isInitializingFromURLRef, isSorting, usersTotal,
                   prevDebouncedSearchRef, hookVars>>

\* The user edits the URL or goes back/forward: the hash becomes newUrl, and
\* the hashchange listener runs; it returns at once while the mount guard is
\* set.
HashChangedTo(newUrl) ==
  /\ Event
  /\ newUrl # url
  /\ IF isInitializingFromURLRef
     THEN /\ url' = newUrl
          /\ UNCHANGED <<currentPage, itemsPerPage, filters>>
     ELSE Render(handleHashChange(ViewState, newUrl), FALSE, newUrl, pref, FALSE)
  /\ UNCHANGED <<pref, phase, isInitializingFromURLRef, isSorting, usersTotal,
                 prevDebouncedSearchRef, hookVars>>

HashChanged == \E newUrl \in UrlEdits(url) : HashChangedTo(newUrl)

\* A fetch of the users completes.
UsersFetched ==
  \E total \in UsersTotals :
    /\ Event
    /\ usersTotal' = total
    /\ UNCHANGED <<url, pref, phase, currentPage, itemsPerPage, filters,
                   isInitializingFromURLRef, isSorting, prevDebouncedSearchRef, hookVars>>

NextUsers ==
  \/ Mount
  \/ MountGuardExpires
  \/ TypeSearch
  \/ SearchCommitted
  \/ ClearSearch
  \/ SortClicked
  \/ SortLockExpires
  \/ StatusFilterChosen
  \/ AdvanceSearchSubmitted
  \/ AdvanceSearchCleared
  \/ PageChosen
  \/ ItemsPerPageChosen
  \/ HashChanged
  \/ UsersFetched

SpecUsers == InitUsers /\ [][NextUsers]_vars


(***************************************************************************)
(* The users table: the claims.                                            *)
(***************************************************************************)
\* C2: encoding the table's filter state into the URL and reading the URL back
\* the way a freshly opened table does yields an equivalent state: the same
\* page, limit, sort, search, protocol search, status, admins and groups (an
\* empty text and an absent one being the same).  Stated for every state the
\* table reaches with a numeric page.
C2_RoundTripYieldsEquivalentState ==
  phase = "mounted" /\ currentPage # NaN =>
    LET back == getInitialStateFromURL(StateToURL(ViewState, pref), pref)
    IN  /\ back.page = currentPage
        /\ back.limit = itemsPerPage
        /\ back.filters.sort = filters.sort
        /\ OrUndef(back.filters.search) = OrUndef(filters.search)
        /\ OrUndef(back.filters.proxy_id) = OrUndef(filters.proxy_id)
        /\ back.filters.status = filters.status
        /\ back.filters.admin = filters.admin
        /\ back.filters.group = filters.group

\* C3: once the table has mounted and before any event reaches it, the filter
\* state holds the values parsed from the URL it was opened on.
C3_MountKeepsParsedValues ==
  phase = "mounted" /\ isInitializingFromURLRef /\ guardEvents = 0 =>
    LET parsed == getInitialStateFromURL(url, pref)
    IN  /\ currentPage = parsed.page
        /\ itemsPerPage = parsed.limit
        /\ filters.sort = parsed.filters.sort
        /\ OrUndef(filters.search) = OrUndef(parsed.filters.search)
        /\ OrUndef(filters.proxy_id) = OrUndef(parsed.filters.proxy_id)
        /\ filters.status = parsed.filters.status
        /\ filters.admin = parsed.filters.admin
        /\ filters.group = parsed.filters.group

\* C4: a step of the mounted table, taken with the mount guard clear, that
\* changes the page, limit, sort, search, status, admins or groups leaves a
\* URL that carries exactly the fields that differ from their default: the
\* page as page + 1 unless it is 0, the limit unless it is the persisted
\* preference, the sort unless it is '-created_at', the search text (the
\* protocol search in its place), the status, the admins and the groups.
C4_ChangeRewritesURL ==
  [][ ( /\ phase = "mounted" /\ ~isInitializingFromURLRef
        /\ <<currentPage, itemsPerPage, filters.sort, filters.search, filters.proxy_id,
             filters.status, filters.admin, filters.group>>' #
           <<currentPage, itemsPerPage, filters.sort, filters.search, filters.proxy_id,
             filters.status, filters.admin, filters.group>> )
      => ( /\ (url'.page = Undef) <=> (currentPage' = 0)
           /\ currentPage' \in Nat \ {0} => url'.page = NumToString(currentPage' + 1)
           /\ url'.limit = IF itemsPerPage' = pref' THEN Undef
                           ELSE NumToString(itemsPerPage')
           /\ url'.sort = IF filters'.sort = DefaultSort THEN Undef ELSE filters'.sort
           /\ url'.search = IF Truthy(filters'.proxy_id) THEN filters'.proxy_id
                            ELSE OrUndef(filters'.search)
           /\ url'.status = filters'.status
           /\ url'.admin = filters'.admin
           /\ url'.group = MapToString(filters'.group) ) ]_vars

\* C5: a navigation to newUrl that the mounted table handles with the mount
\* guard clear leaves every field (page, limit, sort, search, status, admins,
\* groups) at the value newUrl carries for it (an absent limit standing for
\* the limit in use).
C5_NavigationAppliesEveryField ==
  [][ \A newUrl \in UrlEdits(url) :
        ~isInitializingFromURLRef /\ HashChangedTo(newUrl) =>
          LET parsed == parseURLParams(newUrl, itemsPerPage)
          IN  /\ currentPage' = parsed.page
              /\ itemsPerPage' = parsed.limit
              /\ filters'.sort = parsed.sort
              /\ (IF Truthy(filters'.proxy_id) THEN filters'.proxy_id
                  ELSE OrUndef(filters'.search)) = parsed.search
              /\ filters'.status = parsed.status
              /\ filters'.admin = parsed.admin
              /\ filters'.group = parsed.group ]_vars

\* C6: whatever the URL carries, the page read from it is a non-negative
\* integer, the limit is positive and the status is a known one or absent.
C6_InvalidValuesFallBackToDefaults ==
  LET parsed == parseURLParams(url, pref)
  IN  /\ parsed.page \in Nat
      /\ parsed.limit \in Nat \ {0}
      /\ parsed.status \in validStatuses \cup {Undef}

\* C7: in the users table, when totalPages shrinks to a value at or below the
\* current page index, the current page becomes totalPages - 1.
C7_PageClampedWhenTotalPagesShrinks ==
  [][ ( /\ phase = "mounted" /\ currentPage \in Nat
        /\ totalPages' < totalPages /\ totalPages' > 0
        /\ currentPage >= totalPages' )
      => currentPage' = totalPages' - 1 ]_vars

\* C8: in the users table the offset of the fetch filters is
\* currentPage * limit, a multiple of the limit.
C8_OffsetIsPageTimesLimit ==
  phase = "mounted" =>
    /\ currentPage \in Nat
    /\ filters.offset = currentPage * itemsPerPage
    /\ filters.limit = itemsPerPage


(***************************************************************************)
(* The nodes list: NodesList and its NodeFilters bar.                      *)
(*                                                                         *)
(* A node is named by its id; the dataset gives its fields.  The API is    *)
(* opaque: a fetch reports any total of ServerTotals and the ids of the    *)
(* page the filters ask for.  An undefined status array is the empty       *)
(* sequence and an undefined core_id is 0 (the handlers turn both into     *)
(* undefined and the readers treat them alike).                            *)
(***************************************************************************)
NODES_PER_PAGE == 15

\* The totals the server reports: none, one page, two pages, three pages.
ServerTotals == {0, 2, 16, 31}

\* What the user can type into the nodes search box.
NodesSearchInputs == {"", "a", "B"}

\* What the advanced search form can hold on submit.
NodeAdvanceSearchValues ==
  {[status |-> <<>>, core_id |-> 0], [status |-> <<"connected">>, core_id |-> 1]}

\* Renders an event may cause before the model stops following them.
RenderFuel == 6

\* The dataset: name, address and port of node k.
NodeName(k) == IF k % 2 = 1 THEN "Ab" ELSE "b"

NodeAddress(k) == IF k % 3 = 0 THEN "a.b" ELSE "b.b"

\* 0 stands for a node without a port.
NodePort(k) == IF k % 2 = 0 THEN 1 ELSE 0

\* String.prototype.toLowerCase on the strings the model uses.
ToLowerCase(t) ==
  IF t = "Ab" THEN "ab" ELSE IF t = "B" THEN "b" ELSE t

\* The non-empty substrings of the lower-case strings the model uses.
Substrings(t) ==
  IF t = "ab" THEN {"a", "b", "ab"}
  ELSE IF t = "b" THEN {"b"}
  ELSE IF t = "a.b" THEN {"a", ".", "b", "a.", ".b", "a.b"}
  ELSE IF t = "b.b" THEN {"b", ".", "b.", ".b", "b.b"}
  ELSE {t}

\* String.prototype.includes
Includes(t, term) == term = "" \/ term \in Substrings(t)

\* useGetNodes has no data.
NoResponse == [defined |-> FALSE, nodes |-> <<>>, total |-> 0]

\* The server's answer to the filters when the matching nodes number total.
Answer(f, total) ==
  LET left == total - f.offset
      n == IF left < 0 THEN 0 ELSE IF left < f.limit THEN left ELSE f.limit
  IN  [defined |-> TRUE, nodes |-> [i \in 1..n |-> f.offset + i], total |-> total]

\* useState's initial filters
InitialNodeFilters ==
  [limit |-> NODES_PER_PAGE, offset |-> 0, search |-> Undef, status |-> <<>>, core_id |-> 0]

\* The state one render of NodesList and NodeFilters closes over.
NodesView ==
  [page |-> nodesCurrentPage, changing |-> isChangingPage, was |-> wasFetchingRef,
   all |-> allNodes, term |-> localSearchTerm, filters |-> nodesFilters,
   resp |-> nodesResponse, fetching |-> isFetching, debounced |-> debouncedSearch]

\* nodesResponse?.total || 0
totalNodesFromResponse(c) == IF c.resp.defined THEN c.resp.total ELSE 0

shouldUseLocalSearch(c) ==
  /\ totalNodesFromResponse(c) > 0
  /\ totalNodesFromResponse(c) <= NODES_PER_PAGE
  /\ ~Truthy(c.filters.search)

NodeMatches(k, searchLower) ==
  \/ Includes(ToLowerCase(NodeName(k)), searchLower)
  \/ Includes(ToLowerCase(NodeAddress(k)), searchLower)
  \/ (NodePort(k) # 0 /\ Includes(NumToString(NodePort(k)), searchLower))

filteredNodes(c) ==
  IF shouldUseLocalSearch(c) /\ Truthy(c.term) /\ Len(c.all) > 0
  THEN LET searchLower == ToLowerCase(c.term)
           Keep(k) == NodeMatches(k, searchLower)
       IN  SelectSeq(c.all, Keep)
  ELSE c.resp.nodes

totalNodes(c) ==
  IF shouldUseLocalSearch(c) /\ Truthy(c.term)
  THEN Len(filteredNodes(c))
  ELSE totalNodesFromResponse(c)

calculatedTotalPages(c) == CeilDiv(totalNodes(c), NODES_PER_PAGE)

\* A handleFilterChange without the local branch: every search goes to the server.
nodesHandleFilterChangeServerOnly(cl, st, newSearch) ==
  LET searchValue == IF newSearch # Undef THEN newSearch ELSE cl.filters.search
  IN  [st EXCEPT !.term = OrEmpty(searchValue),
                 !.filters = [st.filters EXCEPT !.search = newSearch, !.offset = 0],
                 !.page = 0]

\* handleFilterChange({search: newSearch, offset: 0}), the only shape NodeFilters
\* passes.  cl is the render the callback closes over, st the state its
\* updates are applied to.
nodesHandleFilterChange(cl, st, newSearch) ==
  LET searchValue == IF newSearch # Undef THEN newSearch ELSE cl.filters.search
  IN  IF shouldUseLocalSearch(cl) /\ Truthy(searchValue)
      THEN [st EXCEPT !.term = OrEmpty(searchValue), !.page = 0]
      ELSE [st EXCEPT !.term = OrEmpty(searchValue),
                      !.filters = [st.filters EXCEPT !.search = newSearch, !.offset = 0],
                      !.page = 0]

nodesHandlePageChange(cl, st, newPage) ==
  IF newPage = cl.page \/ cl.changing THEN st
  ELSE IF shouldUseLocalSearch(cl) /\ Truthy(cl.term)
  THEN [st EXCEPT !.page = newPage]
  ELSE [st EXCEPT !.changing = TRUE,
                  !.page = newPage,
                  !.filters = [st.filters EXCEPT !.offset = newPage * NODES_PER_PAGE]]

nodesHandleAdvanceSearchSubmit(st, values) ==
  [st EXCEPT !.filters = [st.filters EXCEPT !.status = values.status,
                                            !.core_id = values.core_id,
                                            !.offset = 0],
             !.page = 0]

nodesHandleClearAdvanceSearch(st) ==
  [st EXCEPT !.filters = [st.filters EXCEPT !.status = <<>>, !.core_id = 0, !.offset = 0],
             !.page = 0]

\* NodeFilters: hasActiveAdvanceFilters
nodesHasActiveAdvanceFilters(c) == Len(c.filters.status) > 0 \/ c.filters.core_id # 0

\* The dependencies of the effects.  onFilterChange is handleFilterChange, a
\* useCallback on [filters.search, shouldUseLocalSearch].
FilterEffectDeps(c) == <<c.debounced, c.filters.search, shouldUseLocalSearch(c)>>

AllNodesEffectDeps(c) ==
  <<c.resp, shouldUseLocalSearch(c), c.filters.search, c.filters.offset>>

ChangingEffectDeps(c) == <<c.fetching, c.changing, c.resp>>

ClampEffectDeps(c) == <<calculatedTotalPages(c), c.page>>

\* NodeFilters: onFilterChange({search: debouncedSearch || undefined, offset: 0})
FilterEffect(cur, st) == nodesHandleFilterChange(cur, st, OrUndef(cur.debounced))

AllNodesEffect(cur, st) ==
  IF /\ cur.resp.defined
     /\ shouldUseLocalSearch(cur)
     /\ ~Truthy(cur.filters.search)
     /\ cur.filters.offset = 0
  THEN [st EXCEPT !.all = cur.resp.nodes]
  ELSE st

\* wasFetchingRef is a ref: the effect reads and writes its current value.
ChangingEffect(cur, st) ==
  LET done == ~cur.fetching /\ st.was /\ cur.changing
  IN  [st EXCEPT !.changing = IF done THEN FALSE ELSE @,
                 !.was = IF cur.fetching THEN TRUE ELSE IF done THEN FALSE ELSE @]

ClampEffect(cur, st) ==
  IF calculatedTotalPages(cur) > 0 /\ cur.page >= calculatedTotalPages(cur)
  THEN LET lastPage == calculatedTotalPages(cur) - 1
       IN  [st EXCEPT !.page = lastPage,
                      !.filters = [st.filters EXCEPT !.offset = lastPage * NODES_PER_PAGE]]
  ELSE st

\* The effects after the render of cur, the previous render being prev: the
\* child's effect first, then NodesList's in the order they are declared.
\* Each effect reads the render's values; the updates accumulate.
NodesEffects(prev, cur, first) ==
  LET s1 == IF first \/ FilterEffectDeps(cur) # FilterEffectDeps(prev)
            THEN FilterEffect(cur, cur) ELSE cur
      s2 == IF first \/ AllNodesEffectDeps(cur) # AllNodesEffectDeps(prev)
            THEN AllNodesEffect(cur, s1) ELSE s1
      s3 == IF first \/ ChangingEffectDeps(cur) # ChangingEffectDeps(prev)
            THEN ChangingEffect(cur, s2) ELSE s2
  IN  IF first \/ ClampEffectDeps(cur) # ClampEffectDeps(prev)
      THEN ClampEffect(cur, s3) ELSE s3

\* useGetNodes(filters, {gcTime: 0, ...}): the filters are the query key; a new
\* key has no data and is being fetched.
NodesQuery(before, after) ==
  IF after.filters # before.filters
  THEN [after EXCEPT !.resp = NoResponse, !.fetching = TRUE]
  ELSE after

\* Render cur, run its effects, and render again until nothing changes.
RECURSIVE NodesSettle(_, _, _, _)
NodesSettle(prev, cur, first, fuel) ==
  LET next == NodesQuery(cur, NodesEffects(prev, cur, first))
  IN  IF next = cur \/ fuel = 0 THEN next
      ELSE NodesSettle(cur, next, FALSE, fuel - 1)

\* An event's handler has turned the state of render c into updated.
NodesRender(c, updated) ==
  \E after \in {NodesSettle(c, NodesQuery(c, updated), FALSE, RenderFuel)} :
    /\ nodesCurrentPage' = after.page
    /\ isChangingPage' = after.changing
    /\ wasFetchingRef' = after.was
    /\ allNodes' = after.all
    /\ localSearchTerm' = after.term
    /\ nodesFilters' = after.filters
    /\ nodesResponse' = after.resp
    /\ isFetching' = after.fetching

\* The state after construction and the first render: the filters are the
\* defaults, the query has no data yet and is fetching.
InitNodes ==
  /\ HookInit(OrEmpty(InitialNodeFilters.search))
  /\ UsersAbsent
  /\ DisplayAbsent
  /\ nodesPhase = "constructed"
  /\ nodesCurrentPage = 0
  /\ isChangingPage = FALSE
  /\ wasFetchingRef = FALSE
  /\ allNodes = <<>>
  /\ localSearchTerm = ""
  /\ nodesFilters = InitialNodeFilters
  /\ nodesResponse = NoResponse
  /\ isFetching = TRUE

\* An event reaches the mounted nodes list; the users table is on another page.
NodesEvent ==
  /\ nodesPhase = "mounted"
  /\ UNCHANGED <<nodesPhase, usersVars, clockVars, displayVars>>

\* The mount effects: every effect runs once.
NodesMount ==
  /\ nodesPhase = "constructed"
  /\ nodesPhase' = "mounted"
  /\ \E after \in {NodesSettle(NodesView, NodesView, TRUE, RenderFuel)} :
       NodesRender(NodesView, after)
  /\ UNCHANGED <<hookVars, usersVars, displayVars>>

\* handleSearchChange: only the hook's state changes.
NodesTypeSearch ==
  \E value \in NodesSearchInputs :
    /\ NodesEvent
    /\ HookSetSearch(value)
    /\ UNCHANGED <<nodesCurrentPage, isChangingPage, wasFetchingRef, allNodes,
                   localSearchTerm, nodesFilters, nodesResponse, isFetching>>

\* The debounce timer expires; NodeFilters renders with the committed value.
NodesSearchCommitted ==
  /\ NodesEvent
  /\ HookTimerFires
  /\ NodesRender(NodesView, [NodesView EXCEPT !.debounced = CommittedValue(pending)])

\* clearSearch: the X button, rendered while the box is not empty
NodesClearSearch ==
  /\ NodesEvent
  /\ Truthy(search)
  /\ HookSetSearch("")
  /\ NodesRender(NodesView, nodesHandleFilterChange(NodesView, NodesView, Undef))

\* A page link or Previous/Next of NodePaginationControls.  The controls are
\* rendered while totalPages > 1 and disabled while isPageLoading, and
\* handlePageChange ignores a click while isChangingPage; with more than one
\* calculated page there is a response, so isPageLoading is isChangingPage and
\* totalPages is calculatedTotalPages.  (isFirstLoadRef, isAutoRefreshingRef
\* and previousTotalPagesRef only decide what is displayed while loading.)
NodesPageChosen ==
  \E newPage \in 0..2 :
    /\ NodesEvent
    /\ calculatedTotalPages(NodesView) > 1
    /\ ~isChangingPage
    /\ newPage < calculatedTotalPages(NodesView)
    /\ newPage # nodesCurrentPage
    /\ NodesRender(NodesView, nodesHandlePageChange(NodesView, NodesView, newPage))
    /\ UNCHANGED hookVars

NodesAdvanceSearchSubmitted ==
  \E values \in NodeAdvanceSearchValues :
    /\ NodesEvent
    /\ NodesRender(NodesView, nodesHandleAdvanceSearchSubmit(NodesView, values))
    /\ UNCHANGED hookVars

\* The clear button, rendered while an advanced filter is active
NodesAdvanceSearchCleared ==
  /\ NodesEvent
  /\ nodesHasActiveAdvanceFilters(NodesView)
  /\ NodesRender(NodesView, nodesHandleClearAdvanceSearch(NodesView))
  /\ UNCHANGED hookVars

\* The fetch for the current filters returns.
NodesFetched ==
  \E total \in ServerTotals :
    /\ NodesEvent
    /\ isFetching
    /\ NodesRender(NodesView, [NodesView EXCEPT !.resp = Answer(nodesFilters, total),
                                                !.fetching = FALSE])
    /\ UNCHANGED hookVars

\* refetchInterval, the refresh button or a window focus starts a refetch of
\* the current key; the data stays.
NodesRefetchStarts ==
  /\ NodesEvent
  /\ ~isFetching
  /\ NodesRender(NodesView, [NodesView EXCEPT !.fetching = TRUE])
  /\ UNCHANGED hookVars

NextNodes ==
  \/ NodesMount
  \/ NodesTypeSearch
  \/ NodesSearchCommitted
  \/ NodesClearSearch
  \/ NodesPageChosen
  \/ NodesAdvanceSearchSubmitted
  \/ NodesAdvanceSearchCleared
  \/ NodesFetched
  \/ NodesRefetchStarts

SpecNodes == InitNodes /\ [][NextNodes]_vars


(***************************************************************************)
(* The nodes list: the claims.                                             *)
(***************************************************************************)
\* C9: in the nodes list, while the server-reported total is at least 1 and at
\* most one page (15) and the fetch filters hold no search term, committing a
\* search term or choosing a page changes neither the fetch filters nor the
\* query: no request is issued for it.
C9_LocalSearchIssuesNoRequest ==
  [][ ( /\ nodesResponse.defined
        /\ nodesResponse.total > 0
        /\ nodesResponse.total <= NODES_PER_PAGE
        /\ ~Truthy(nodesFilters.search)
        /\ (NodesSearchCommitted \/ NodesPageChosen) )
      => UNCHANGED <<nodesFilters, nodesResponse, isFetching>> ]_vars

\* A term has been committed in local mode: it is searched for in memory and
\* the fetch filters hold no search.
C9_Witness ==
  /\ nodesPhase = "mounted"
  /\ nodesResponse.defined /\ nodesResponse.total = 2
  /\ debouncedSearch = "a" /\ localSearchTerm = "a"
  /\ ~Truthy(nodesFilters.search)
  /\ allNodes = <<1, 2>>

\* C9 as stated: any server-reported total of at most one page, zero included.
C9_AsStated ==
  [][ ( /\ nodesResponse.defined
        /\ nodesResponse.total <= NODES_PER_PAGE
        /\ ~Truthy(nodesFilters.search)
        /\ (NodesSearchCommitted \/ NodesPageChosen) )
      => UNCHANGED <<nodesFilters, nodesResponse, isFetching>> ]_vars


(***************************************************************************)
(* The page window of PaginationControls and NodePaginationControls: both  *)
(* components carry the same getPaginationRange.                           *)
(***************************************************************************)
\* Number of pages to show on each side of the current page
delta == 2

\* -1 represents ellipsis
ELLIPSIS == -1

\* a + b, Math.max(a, b), Math.min(a, b), a <= b, a >= b with NaN propagation
JsAdd(a, b) == IF a = NaN \/ b = NaN THEN NaN ELSE a + b

JsMax(a, b) == IF a = NaN \/ b = NaN THEN NaN ELSE IF a > b THEN a ELSE b

JsMin(a, b) == IF a = NaN \/ b = NaN THEN NaN ELSE IF a < b THEN a ELSE b

JsLe(a, b) == a # NaN /\ b # NaN /\ a <= b

JsGe(a, b) == a # NaN /\ b # NaN /\ a >= b

\* A window that shows one page before the current page.
windowStartOneBefore(current, total) ==
  IF JsGe(JsAdd(current, delta), total - 2)
  THEN JsMax(1, total - 3 - 2 * delta)
  ELSE JsMax(1, JsSub(current, 1))

\* start, after the adjustment near the end
windowStart(current, total) ==
  IF JsGe(JsAdd(current, delta), total - 2)
  THEN JsMax(1, total - 3 - 2 * delta)
  ELSE JsMax(1, JsSub(current, delta))

\* An end that is not shifted near the start.
windowEndUnshifted(current, total) == JsMin(total - 2, JsAdd(current, delta))

\* An end that is not held below the last page.
windowEndUnbounded(current, total) ==
  IF JsLe(JsSub(current, delta), 1)
  THEN JsAdd(JsMax(1, JsSub(current, delta)), 2 * delta)
  ELSE JsAdd(current, delta)

\* end, after the adjustment near the start (which reads the unadjusted start)
windowEnd(current, total) ==
  IF JsLe(JsSub(current, delta), 1)
  THEN JsMin(total - 2, JsAdd(JsMax(1, JsSub(current, delta)), 2 * delta))
  ELSE JsMin(total - 2, JsAdd(current, delta))

\* for (let i = from; i <= to; i++) range.push(i)
PagesFromTo(from, to) ==
  IF from = NaN \/ to = NaN \/ from > to THEN <<>>
  ELSE [i \in 1..(to - from + 1) |-> from + i - 1]

\* A range without the branch for a small number of pages.
getPaginationRangeNoSmallCase(current, total) ==
  LET start == windowStart(current, total)
      end == windowEnd(current, total)
  IN  <<0>>
      \o (IF JsGt(start, 1) THEN <<ELLIPSIS>> ELSE <<>>)
      \o PagesFromTo(start, end)
      \o (IF end # NaN /\ end < total - 2 THEN <<ELLIPSIS>> ELSE <<>>)
      \o (IF total > 1 THEN <<total - 1>> ELSE <<>>)

getPaginationRange(current, total) ==
  IF total <= 5 THEN PagesFromTo(0, total - 1)
  ELSE LET start == windowStart(current, total)
           end == windowEnd(current, total)
       IN  <<0>>
           \o (IF JsGt(start, 1) THEN <<ELLIPSIS>> ELSE <<>>)
           \o PagesFromTo(start, end)
           \o (IF end # NaN /\ end < total - 2 THEN <<ELLIPSIS>> ELSE <<>>)
           \o (IF total > 1 THEN <<total - 1>> ELSE <<>>)

\* The props a pagination control is rendered with: any page count up to
\* MaxWindowTotal and any page up to MaxWindowPage, which lies beyond the
\* last page, or the NaN page a users table opened on ?page=abc passes.
MaxWindowTotal == 21

MaxWindowPage == 23

WindowPages == (0..MaxWindowPage) \cup {NaN}

WindowTotals == 0..MaxWindowTotal

\* The first render: the list has no data yet, so there are no pages; the
\* current page is whatever the list starts on.
InitWindow ==
  /\ HookInit("")
  /\ UsersAbsent
  /\ NodesAbsent
  /\ windowCurrentPage \in WindowPages
  /\ windowTotalPages = 0
  /\ paginationRange = getPaginationRange(windowCurrentPage, windowTotalPages)
  /\ SortAbsent
  /\ PanelAbsent
  /\ TimeAbsent

\* The control is rendered again with another current page.
WindowPageChanges ==
  \E current \in WindowPages :
    /\ current # windowCurrentPage
    /\ windowCurrentPage' = current
    /\ paginationRange' = getPaginationRange(current, windowTotalPages)
    /\ UNCHANGED <<windowTotalPages, hookVars, usersVars, nodesVars, sortVars, timeVars, panelVars>>

\* The control is rendered again with another page count.
WindowTotalChanges ==
  \E total \in WindowTotals :
    /\ total # windowTotalPages
    /\ windowTotalPages' = total
    /\ paginationRange' = getPaginationRange(windowCurrentPage, total)
    /\ UNCHANGED <<windowCurrentPage, hookVars, usersVars, nodesVars, sortVars, timeVars, panelVars>>

NextWindow == WindowPageChanges \/ WindowTotalChanges

SpecWindow == InitWindow /\ [][NextWindow]_vars

(***************************************************************************)
(* The page window: the claims.                                            *)
(***************************************************************************)
\* C11: for more than 5 pages and 4 <= currentPage <= totalPages - 5 the window
\* is first page, ellipsis, the five pages around the current one, ellipsis,
\* last page; for 20 pages and page 10 it is 0, E, 8, 9, 10, 11, 12, E, 19.
C11_MiddleWindow ==
  /\ ( /\ windowTotalPages > 5
       /\ windowCurrentPage # NaN
       /\ 4 <= windowCurrentPage
       /\ windowCurrentPage <= windowTotalPages - 5 )
     => paginationRange =
          <<0, ELLIPSIS, windowCurrentPage - 2, windowCurrentPage - 1, windowCurrentPage,
            windowCurrentPage + 1, windowCurrentPage + 2, ELLIPSIS, windowTotalPages - 1>>
  /\ (windowTotalPages = 20 /\ windowCurrentPage = 10)
     => paginationRange = <<0, -1, 8, 9, 10, 11, 12, -1, 19>>

C11_Witness ==
  /\ windowTotalPages = 20 /\ windowCurrentPage = 10
  /\ Len(paginationRange) = 9 /\ paginationRange[3] = 8

\* C12: for more than 5 pages and currentPage - delta <= 1 the window begins
\* 0, 1, ..., min(totalPages - 2, 1 + 2 * delta), so no ellipsis stands before
\* page 1; for 10 pages and page 0 it holds the pages 0 through 4.
C12_BoundaryShift ==
  ( /\ windowTotalPages > 5
    /\ windowCurrentPage # NaN
    /\ windowCurrentPage - delta <= 1 )
  => LET last == IF windowTotalPages - 2 < 1 + 2 * delta
                 THEN windowTotalPages - 2 ELSE 1 + 2 * delta
     IN  /\ Len(paginationRange) >= last + 1
         /\ \A i \in 1..(last + 1) : paginationRange[i] = i - 1

C12_Witness ==
  /\ windowTotalPages = 10 /\ windowCurrentPage = 0
  /\ paginationRange = <<0, 1, 2, 3, 4, 5, ELLIPSIS, 9>>

\* C13: for at most 5 pages the window is 0, 1, ..., totalPages - 1 whatever
\* the current page, and holds no ellipsis.
C13_SmallWindow ==
  windowTotalPages <= 5 =>
    /\ Len(paginationRange) = windowTotalPages
    /\ \A i \in 1..Len(paginationRange) : paginationRange[i] = i - 1

C13_Witness ==
  /\ windowTotalPages = 5 /\ windowCurrentPage = 7
  /\ paginationRange = <<0, 1, 2, 3, 4>>

\* C14: for every page count and every current page >= 0, a page beyond the
\* last one included, the pages of the window are strictly increasing when
\* the ellipses are left out, and the window has at most 2 * delta + 5 entries.
C14_IncreasingAndBounded ==
  (windowCurrentPage # NaN /\ windowCurrentPage >= 0) =>
    /\ Len(paginationRange) <= 2 * delta + 5
    /\ \A i, j \in 1..Len(paginationRange) :
         ( /\ i < j
           /\ paginationRange[i] # ELLIPSIS
           /\ paginationRange[j] # ELLIPSIS )
         => paginationRange[i] < paginationRange[j]

C14_Witness ==
  /\ windowTotalPages = 10 /\ windowCurrentPage = 20
  /\ paginationRange = <<0, ELLIPSIS, 3, 4, 5, 6, 7, 8, 9>>


(***************************************************************************)
(* The users table: page changes and the users query.  The table is opened *)
(* on a URL that carries at most a page, and the status of the query is    *)
(* followed: useGetUsers(filters, {gcTime: 0, ...}) has no data for a new   *)
(* key and fetches it.                                                     *)
(***************************************************************************)
\* The URLs the table is opened on.
PagingUrls ==
  {[page |-> p, limit |-> Undef, sort |-> Undef, search |-> Undef, status |-> Undef,
    is_protocol |-> Undef, admin |-> <<>>, group |-> <<>>] : p \in {Undef, "3"}}

\* The totals the server reports.
PagingTotals == {15, 25}

\* The Next button is followed no further than this page.
MaxPagingPage == 3

\* isPageLoading
usersIsPageLoading(changing, fetching, firstLoad, autoRefreshing) ==
  changing \/ (fetching /\ ~firstLoad /\ ~autoRefreshing)

\* handlePageChange(newPage), its guard included
usersOnPageChange(st, changing, newPage) ==
  IF newPage = st.page \/ changing THEN st ELSE handlePageChange(st, newPage)

\* The first render: the query has no data yet and is fetching.
InitPaging ==
  /\ url \in PagingUrls
  /\ pref = InitialPreference
  /\ phase = "constructed"
  /\ LET initialState == getInitialStateFromURL(url, pref)
     IN  /\ currentPage = initialState.page
         /\ itemsPerPage = initialState.limit
         /\ filters = initialState.filters
         /\ HookInit(OrEmpty(initialState.filters.search))
         /\ prevDebouncedSearchRef = OrUndef(initialState.filters.search)
  /\ isInitializingFromURLRef = FALSE
  /\ isSorting = FALSE
  /\ usersTotal = 0
  /\ guardEvents = 0
  /\ usersIsChangingPage = FALSE
  /\ usersIsFetching = TRUE
  /\ usersHasData = FALSE
  /\ usersIsFirstLoadRef = TRUE
  /\ usersIsAutoRefreshingRef = FALSE
  /\ usersPageLoadingShown = FALSE
  /\ pageChangeInFlight = FALSE
  /\ NodesAbsent
  /\ DisplayAbsent

\* What the enabled pagination controls ask for: a page link of the window,
\* Previous, Next.
PagingOffered ==
  {paginationPage \in 0..MaxPagingPage :
     \E i \in 1..Len(getPaginationRange(currentPage, totalPages)) :
       getPaginationRange(currentPage, totalPages)[i] = paginationPage} \cup
  (IF currentPage # 0 THEN {currentPage - 1} ELSE {}) \cup
  (IF currentPage # totalPages - 1 /\ totalPages # 0 /\ currentPage < MaxPagingPage
   THEN {currentPage + 1} ELSE {})

\* A click on a pagination control, which is disabled while the last render
\* found isPageLoading.  handlePageChange runs setIsChangingPage(true),
\* setCurrentPage(newPage), setIsChangingPage(false) in one batch, so the
\* next render sees isChangingPage false; the offset sync effect then changes
\* the query key.
PagingPageClickedTo(newPage) ==
  /\ phase = "mounted"
  /\ ~usersPageLoadingShown
  /\ newPage \in PagingOffered
  /\ Render(usersOnPageChange(ViewState, usersIsChangingPage, newPage), FALSE, url, pref,
            isInitializingFromURLRef)
  /\ usersIsChangingPage' =
       IF newPage = currentPage \/ usersIsChangingPage THEN usersIsChangingPage ELSE FALSE
  /\ usersIsFetching' = (usersIsFetching \/ filters' # filters)
  /\ usersHasData' = (usersHasData /\ filters' = filters)
  /\ usersTotal' = IF filters' = filters THEN usersTotal ELSE 0
  /\ pageChangeInFlight' = (pageChangeInFlight \/ filters' # filters)
  /\ usersPageLoadingShown' =
       IF currentPage' = currentPage THEN usersPageLoadingShown
       ELSE usersIsPageLoading(usersIsChangingPage', usersIsFetching',
                               usersIsFirstLoadRef, usersIsAutoRefreshingRef)
  /\ UNCHANGED <<pref, phase, isInitializingFromURLRef, isSorting, guardEvents,
                 prevDebouncedSearchRef, usersIsFirstLoadRef, usersIsAutoRefreshingRef,
                 hookVars, nodesVars, displayVars>>

PagingPageClicked == \E newPage \in 0..MaxPagingPage : PagingPageClickedTo(newPage)

\* The fetch of the current key completes: the table renders, then the
\* effects on usersData and on isFetching reset the two refs.
PagingFetched ==
  \E total \in PagingTotals :
    /\ phase = "mounted"
    /\ usersIsFetching
    /\ usersIsFetching' = FALSE
    /\ usersHasData' = TRUE
    /\ usersTotal' = total
    /\ usersIsFirstLoadRef' = FALSE
    /\ usersIsAutoRefreshingRef' = FALSE
    /\ usersPageLoadingShown' = usersIsPageLoading(usersIsChangingPage, FALSE,
                                                   usersIsFirstLoadRef,
                                                   usersIsAutoRefreshingRef)
    /\ pageChangeInFlight' = FALSE
    /\ UNCHANGED <<url, pref, phase, currentPage, itemsPerPage, filters,
                   isInitializingFromURLRef, isSorting, guardEvents,
                   prevDebouncedSearchRef, usersIsChangingPage,
                   hookVars, nodesVars, displayVars>>

\* handleAutoRefresh, called by the auto-refresh interval of Filters: the ref
\* is set and the key refetched; the table renders again only if isFetching
\* changes.
PagingAutoRefreshStarts ==
  /\ phase = "mounted"
  /\ ~usersIsAutoRefreshingRef
  /\ usersIsAutoRefreshingRef' = TRUE
  /\ usersIsFetching' = TRUE
  /\ usersPageLoadingShown' =
       IF usersIsFetching THEN usersPageLoadingShown
       ELSE usersIsPageLoading(usersIsChangingPage, TRUE, usersIsFirstLoadRef, TRUE)
  /\ UNCHANGED <<url, pref, phase, currentPage, itemsPerPage, filters,
                 isInitializingFromURLRef, isSorting, usersTotal, guardEvents,
                 prevDebouncedSearchRef, usersIsChangingPage, usersHasData,
                 usersIsFirstLoadRef, pageChangeInFlight,
                 hookVars, nodesVars, displayVars>>

NextPaging ==
  \/ Mount
  \/ MountGuardExpires
  \/ PagingPageClicked
  \/ PagingFetched
  \/ PagingAutoRefreshStarts

SpecPaging == InitPaging /\ [][NextPaging]_vars

\* C15: a call of the users table's onPageChange changes no state and issues
\* no fetch when the page asked for is the current page or the fetch of an
\* earlier page change has not completed.
C15_PageChangeNoOpWhileInFlight ==
  [][ \A newPage \in 0..MaxPagingPage :
        ( /\ newPage = currentPage \/ pageChangeInFlight
          /\ PagingPageClickedTo(newPage) )
        => UNCHANGED <<currentPage, itemsPerPage, filters, usersIsFetching, usersHasData>>
    ]_vars


(***************************************************************************)
(* The users table: sorting.  The table is opened on a URL that carries at *)
(* most a sort key; the header buttons of the columns and the items of the *)
(* sort dropdown call handleSort.                                          *)
(***************************************************************************)
\* The URLs the table is opened on.
SortUrls ==
  {[page |-> Undef, limit |-> Undef, sort |-> k, search |-> Undef, status |-> Undef,
    is_protocol |-> Undef, admin |-> <<>>, group |-> <<>>] :
     k \in {Undef, "username", "-expire"}}

\* The columns whose header is a sort button: handleSort('username'), ...
HeaderColumns == {"username", "expire"}

\* The items of the sort dropdown: handleSort(item.value, true)
DropdownItems == {"username", "-username", "expire", "-expire"}

\* A run of header clicks on one column is followed for this many clicks.
MaxHeaderClicks == 3

InitSort ==
  /\ url \in SortUrls
  /\ pref = InitialPreference
  /\ phase = "constructed"
  /\ LET initialState == getInitialStateFromURL(url, pref)
     IN  /\ currentPage = initialState.page
         /\ itemsPerPage = initialState.limit
         /\ filters = initialState.filters
         /\ HookInit(OrEmpty(initialState.filters.search))
         /\ prevDebouncedSearchRef = OrUndef(initialState.filters.search)
  /\ isInitializingFromURLRef = FALSE
  /\ isSorting = FALSE
  /\ usersTotal = 0
  /\ guardEvents = 0
  /\ UsersFetchUntracked
  /\ NodesAbsent
  /\ DisplayAbsent

\* A click on the header of `column` while the sort lock is free.
SortHeaderClickedOn(column) ==
  /\ phase = "mounted"
  /\ SortLockFree
  /\ isSorting' = TRUE
  /\ Render(handleSort(ViewState, column, FALSE), FALSE, url, pref, isInitializingFromURLRef)
  /\ headerClicks' =
       IF headerClicks.column = column /\ headerClicks.count < MaxHeaderClicks
       THEN [headerClicks EXCEPT !.count = @ + 1]
       ELSE [column |-> column, before |-> filters.sort, count |-> 1]
  /\ UNCHANGED <<pref, phase, isInitializingFromURLRef, usersTotal, guardEvents,
                 prevDebouncedSearchRef, hookVars, usersFetchVars, nodesVars, windowVars,
                 timeVars, panelVars>>

SortHeaderClicked == \E column \in HeaderColumns : SortHeaderClickedOn(column)

\* A choice of `item` in the sort dropdown while the sort lock is free.
SortDropdownSelectedItem(item) ==
  /\ phase = "mounted"
  /\ SortLockFree
  /\ isSorting' = TRUE
  /\ Render(handleSort(ViewState, item, TRUE), FALSE, url, pref, isInitializingFromURLRef)
  /\ headerClicks' = NoHeaderClicks
  /\ UNCHANGED <<pref, phase, isInitializingFromURLRef, usersTotal, guardEvents,
                 prevDebouncedSearchRef, hookVars, usersFetchVars, nodesVars, windowVars,
                 timeVars, panelVars>>

SortDropdownSelected == \E item \in DropdownItems : SortDropdownSelectedItem(item)

NextSort ==
  \/ Mount
  \/ MountGuardExpires
  \/ SortHeaderClicked
  \/ SortDropdownSelected
  \/ SortLockExpires

SpecSort == InitSort /\ [][NextSort]_vars

\* C16: a header click on a column moves the sort field through the cycle
\* not this column -> column -> -column -> '-created_at', so the third of
\* three successive clicks on one column leaves the default sort; a dropdown
\* item sets the sort field to the item, except that the item that is already
\* the sort field sets the default sort.
C16_SortCycle ==
  /\ [][ /\ \A column \in HeaderColumns :
              SortHeaderClickedOn(column) =>
                filters'.sort = IF filters.sort = column THEN Descending(column)
                                ELSE IF filters.sort = Descending(column) THEN DefaultSort
                                ELSE column
         /\ \A item \in DropdownItems :
              SortDropdownSelectedItem(item) =>
                filters'.sort = IF filters.sort = item THEN DefaultSort ELSE item
       ]_vars
  /\ [](( /\ headerClicks.count = 3
          /\ headerClicks.before # headerClicks.column
          /\ headerClicks.before # Descending(headerClicks.column) )
        => filters.sort = DefaultSort)

\* Three header clicks on username, begun while the table was sorted by
\* another column, have returned the sort field to the default.
C16_Witness ==
  /\ headerClicks = [column |-> "username", before |-> "-expire", count |-> 3]
  /\ filters.sort = DefaultSort


(***************************************************************************)
(* Relative-time formatting.  An instant is a number of seconds counted    *)
(* from the start of EpochYear in local time, on the Gregorian calendar;    *)
(* daylight saving shifts are left out.  diff and add are those of dayjs:   *)
(* add moves months and years on the calendar and keeps the day of the     *)
(* month unless the month is too short for it, diff counts months as       *)
(* moment.js does and drops the fraction.                                  *)
(***************************************************************************)
EpochYear == 2021

SecondsAMinute == 60
SecondsAnHour == 3600
SecondsADay == 86400

Abs(n) == IF n < 0 THEN -n ELSE n

\* Utils.a (absFloor) of the quotient p / q, q > 0
AbsFloor(p, q) == IF p < 0 THEN -((-p) \div q) ELSE p \div q

isLeapYear(year) == year % 4 = 0 /\ (year % 100 # 0 \/ year % 400 = 0)

\* daysInMonth(): months are counted from 0, as dayjs counts them
daysInMonth(year, month) ==
  IF month = 1 THEN (IF isLeapYear(year) THEN 29 ELSE 28)
  ELSE IF month \in {3, 5, 8, 10} THEN 30 ELSE 31

\* The years the calendar of the model covers.
CalendarYears == EpochYear..(EpochYear + 9)

RECURSIVE DaysInMonthsBefore(_, _)
DaysInMonthsBefore(year, month) ==
  IF month = 0 THEN 0
  ELSE DaysInMonthsBefore(year, month - 1) + daysInMonth(year, month - 1)

RECURSIVE DaysInYearsBefore(_)
DaysInYearsBefore(year) ==
  IF year <= EpochYear THEN 0
  ELSE DaysInYearsBefore(year - 1) + DaysInMonthsBefore(year - 1, 12)

\* The days before each month and each year, counted once.
DaysBeforeMonthOf ==
  [year \in EpochYear..(EpochYear + 10) |->
     [month \in 0..12 |-> DaysInMonthsBefore(year, month)]]

DaysBeforeYearOf == [year \in EpochYear..(EpochYear + 10) |-> DaysInYearsBefore(year)]

DaysBeforeMonth(year, month) == DaysBeforeMonthOf[year][month]

DaysBeforeYear(year) == DaysBeforeYearOf[year]

\* `value` is computed once and handed to F.
Bind(value, F(_)) == CHOOSE result \in {F(bound) : bound \in {value}} : TRUE

\* The instant of a calendar date and a time of day.
InstantOf(year, month, date, secondOfDay) ==
  (DaysBeforeYear(year) + DaysBeforeMonth(year, month) + (date - 1)) * SecondsADay
  + secondOfDay

\* The date of the `dayOfYear`-th day of `year`, counted from 0.
DateInYear(year, dayOfYear, secondOfDay) ==
  Bind(CHOOSE m \in 0..11 : /\ DaysBeforeMonth(year, m) <= dayOfYear
                            /\ dayOfYear < DaysBeforeMonth(year, m + 1),
       LAMBDA month : [year |-> year, month |-> month,
                       date |-> dayOfYear - DaysBeforeMonth(year, month) + 1,
                       secondOfDay |-> secondOfDay])

\* year(), month(), date() and the time of day of an instant
DateOf(instant) ==
  Bind(instant \div SecondsADay,
       LAMBDA day :
         Bind(CHOOSE y \in CalendarYears :
                DaysBeforeYear(y) <= day /\ day < DaysBeforeYear(y + 1),
              LAMBDA year : DateInYear(year, day - DaysBeforeYear(year),
                                       instant % SecondsADay)))

\* The date moved by `number` months: set(M, $M + number), the day of the
\* month clamped to the length of the month
DateAddMonths(d, number) ==
  Bind(d.year * 12 + d.month + number,
       LAMBDA total :
         InstantOf(total \div 12, total % 12,
                   IF d.date < daysInMonth(total \div 12, total % 12) THEN d.date
                   ELSE daysInMonth(total \div 12, total % 12),
                   d.secondOfDay))

\* add(number, 'month')
AddMonths(instant, number) == Bind(DateOf(instant), LAMBDA d : DateAddMonths(d, number))

\* add(number, unit)
dayjsAdd(instant, number, unit) ==
  CASE unit = "year" -> AddMonths(instant, 12 * number)
    [] unit = "month" -> AddMonths(instant, number)
    [] unit = "day" -> instant + number * SecondsADay
    [] unit = "hour" -> instant + number * SecondsAnHour
    [] unit = "minute" -> instant + number * SecondsAMinute
    [] unit = "second" -> instant + number

\* monthDiff's result for the anchors a + wholeMonthDiff months and
\* a + (wholeMonthDiff -+ 1) months, as the fraction num / den, den > 0
MonthDiffAnchored(b, wholeMonthDiff, anchor, anchor2) ==
  Bind(IF b - anchor < 0 THEN anchor - anchor2 ELSE anchor2 - anchor,
       LAMBDA den : [num |-> -(wholeMonthDiff * den + (b - anchor)), den |-> den])

\* monthDiff(a, b) for a.date() >= b.date(), the dates of a and b given
MonthDiffFrom(a, da, b, db) ==
  Bind((db.year - da.year) * 12 + (db.month - da.month),
       LAMBDA wholeMonthDiff :
         Bind(DateAddMonths(da, wholeMonthDiff),
              LAMBDA anchor :
                MonthDiffAnchored(b, wholeMonthDiff, anchor,
                                  DateAddMonths(da, wholeMonthDiff
                                                    + (IF b - anchor < 0 THEN -1 ELSE 1)))))

MonthDiffNegated(fraction) == [num |-> -fraction.num, den |-> fraction.den]

\* monthDiff(a, b)
monthDiff(a, b) ==
  Bind(<<DateOf(a), DateOf(b)>>,
       LAMBDA dates :
         IF dates[1].date < dates[2].date
         THEN MonthDiffNegated(MonthDiffFrom(b, dates[2], a, dates[1]))
         ELSE MonthDiffFrom(a, dates[1], b, dates[2]))

\* this.diff(that, unit)
dayjsDiff(this, that, unit) ==
  CASE unit = "year" ->
         Bind(monthDiff(this, that), LAMBDA months : AbsFloor(months.num, 12 * months.den))
    [] unit = "month" ->
         Bind(monthDiff(this, that), LAMBDA months : AbsFloor(months.num, months.den))
    [] unit = "day" -> AbsFloor(this - that, SecondsADay)
    [] unit = "hour" -> AbsFloor(this - that, SecondsAnHour)
    [] unit = "minute" -> AbsFloor(this - that, SecondsAMinute)
    [] unit = "second" -> this - that

\* The units between two instants, each counted from where the larger ones
\* end: years, months, days, hours, minutes, seconds.
\* Math.abs(later.diff(from, unit)) for each unit of `units` in turn, `from`
\* being moved on by the units counted: earlier.add(years, 'year')...
RECURSIVE UnitCounts(_, _, _)
UnitCounts(later, from, units) ==
  IF units = <<>> THEN <<>>
  ELSE Bind(from,
            LAMBDA at :
              Bind(Abs(dayjsDiff(later, at, Head(units))),
                   LAMBDA count :
                     <<count>> \o UnitCounts(later, dayjsAdd(at, count, Head(units)),
                                             Tail(units))))

CalendarParts(later, earlier) ==
  Bind(UnitCounts(later, earlier, <<"year", "month", "day", "hour", "minute", "second">>),
       LAMBDA counts :
         [years |-> counts[1], months |-> counts[2], days |-> counts[3],
          hours |-> counts[4], minutes |-> counts[5], seconds |-> counts[6]])

\* `${n} ${t(`time.${n !== 1 ? plural : singular}`)}`
Part(n, singular, plural) == [n |-> n, unit |-> IF n # 1 THEN plural ELSE singular]

StateText(state) == [status |-> "", state |-> state, parts |-> <<>>, ago |-> FALSE]

DurationText(parts, ago) == [status |-> "", state |-> "", parts |-> parts, ago |-> ago]

\* A text that passes from years to days, without months.
LargestUnitTextNoMonths(p) ==
  IF p.years > 0 THEN DurationText(<<Part(p.years, "year", "years")>>, TRUE)
  ELSE DurationText(<<Part(p.months * 30 + p.days, "day", "days")>>, TRUE)

\* The one unit OnlineStatus and formatTimeAgo show.
LargestUnitText(p) ==
  IF p.years > 0 THEN DurationText(<<Part(p.years, "year", "years")>>, TRUE)
  ELSE IF p.months > 0 THEN DurationText(<<Part(p.months, "month", "months")>>, TRUE)
  ELSE IF p.days > 0 THEN DurationText(<<Part(p.days, "day", "days")>>, TRUE)
  ELSE IF p.hours > 0 THEN DurationText(<<Part(p.hours, "hour", "hours")>>, TRUE)
  ELSE IF p.minutes > 0 THEN DurationText(<<Part(p.minutes, "min", "mins")>>, TRUE)
  ELSE DurationText(<<Part(p.seconds, "second", "seconds")>>, TRUE)

\* OnlineStatus, for a lastOnline that is set
OnlineStatus(currentTime, lastOnlineTime) ==
  LET diffInSeconds == dayjsDiff(currentTime, lastOnlineTime, "second")
      isOnline == diffInSeconds <= 60
  IN  IF isOnline THEN StateText("online")
      ELSE Bind(CalendarParts(currentTime, lastOnlineTime), LargestUnitText)

\* formatTimeAgo(timestamp, t)
formatTimeAgo(currentTime, pastTime) ==
  LET diffInSeconds == dayjsDiff(currentTime, pastTime, "second")
  IN  IF diffInSeconds <= 60 THEN StateText("justNow")
      ELSE Bind(CalendarParts(currentTime, pastTime), LargestUnitText)

\* getTooltipText's text for a lastOnline that is not online
TooltipDurationText(p) ==
  LET parts1 == IF p.years > 0 THEN <<Part(p.years, "year", "years")>> ELSE <<>>
      parts2 == IF p.months > 0 THEN Append(parts1, Part(p.months, "month", "months"))
                ELSE parts1
      parts3 == IF p.days > 0 THEN Append(parts2, Part(p.days, "day", "days")) ELSE parts2
      parts4 == IF p.hours > 0 /\ Len(parts3) < 2
                THEN Append(parts3, Part(p.hours, "hour", "hours")) ELSE parts3
      parts5 == IF p.minutes > 0 /\ Len(parts4) < 2
                THEN Append(parts4, Part(p.minutes, "min", "mins")) ELSE parts4
      parts == IF p.seconds > 0 /\ Len(parts5) = 0
               THEN Append(parts5, Part(p.seconds, "second", "seconds")) ELSE parts5
  IN  DurationText(parts, TRUE)

\* OnlineBadge's getTooltipText, for a lastOnline that is set
getTooltipText(currentTime, lastOnlineTime) ==
  LET diffInSeconds == dayjsDiff(currentTime, lastOnlineTime, "second")
      isOnline == diffInSeconds <= 60
  IN  IF isOnline THEN StateText("online")
      ELSE Bind(CalendarParts(currentTime, lastOnlineTime), TooltipDurationText)

\* useRelativeExpiryDate's dateInfo for the units between now and the target
ExpiryDateInfo(isAfter, p) ==
  LET slots1 == IF p.years > 0 THEN <<Part(p.years, "year", "years")>> ELSE <<>>
      slots2 == IF p.months > 0 THEN Append(slots1, Part(p.months, "month", "months"))
                ELSE slots1
      slots3 == IF p.days > 0 THEN Append(slots2, Part(p.days, "day", "days")) ELSE slots2
      slots4 == IF Len(slots3) = 0 /\ p.hours > 0
                THEN Append(slots3, Part(p.hours, "hour", "hours")) ELSE slots3
      durationSlots == IF Len(slots3) = 0 /\ p.minutes > 0
                       THEN Append(slots4, Part(p.minutes, "min", "mins")) ELSE slots4
  IN  [status |-> IF isAfter THEN "expires" ELSE "expired",
       state |-> IF ~isAfter /\ Len(durationSlots) = 0 /\ p.minutes < 1
                 THEN "justNow" ELSE "",
       parts |-> IF ~isAfter /\ Len(durationSlots) = 0 /\ p.minutes < 1
                 THEN <<>> ELSE durationSlots,
       ago |-> IF ~isAfter /\ Len(durationSlots) = 0 /\ p.minutes < 1
               THEN FALSE ELSE ~isAfter]

\* useRelativeExpiryDate(expiryDate), for an expiryDate that is set
useRelativeExpiryDate(now, target) ==
  LET isAfter == target > now
      earlier == IF target < now THEN target ELSE now
      later == IF target > now THEN target ELSE now
  IN  Bind(CalendarParts(later, earlier), LAMBDA p : ExpiryDateInfo(isAfter, p))


\* The renders followed: `now` is one of these instants (3 November 2026 at
\* noon; 31 March 2024, a leap year, half a minute after midnight) ...
TimeNows == {InstantOf(2026, 10, 3, 12 * SecondsAnHour), InstantOf(2024, 2, 31, 30)}

\* ... and the instant lies up to MaxUnitCount of each unit before or after it.
MaxUnitCount == 2

SecondCounts == {0, 1, 59}

\* The instant `sign` times (years, months, ..., seconds) away from `now`.
InstantAway(now, sign, years, months, days, hours, minutes, seconds) ==
  dayjsAdd(dayjsAdd(dayjsAdd(now, sign * years, "year"), sign * months, "month"),
           sign * days, "day")
  + sign * (hours * SecondsAnHour + minutes * SecondsAMinute + seconds)

TimeInstants(now) ==
  {InstantAway(now, sign, years, months, days, hours, minutes, seconds) :
     sign \in {-1, 1}, years \in 0..MaxUnitCount, months \in 0..MaxUnitCount,
     days \in 0..MaxUnitCount, hours \in 0..MaxUnitCount, minutes \in 0..MaxUnitCount,
     seconds \in SecondCounts}

\* The clock and the instant of the row are given; nothing is rendered yet.
InitTime ==
  /\ HookInit("")
  /\ UsersAbsent
  /\ NodesAbsent
  /\ WindowAbsent
  /\ SortAbsent
  /\ PanelAbsent
  /\ timeNow \in TimeNows
  /\ timeInstant \in TimeInstants(timeNow)
  /\ timeFormatter = ""
  /\ timeText = NoText

\* The formatters render the instant of the row.
OnlineStatusRendered ==
  /\ timeFormatter' = "OnlineStatus"
  /\ timeText' = OnlineStatus(timeNow, timeInstant)
  /\ UNCHANGED <<timeNow, timeInstant, hookVars, usersVars, nodesVars, windowVars, sortVars, panelVars>>

OnlineBadgeTooltipShown ==
  /\ timeFormatter' = "OnlineBadge"
  /\ timeText' = getTooltipText(timeNow, timeInstant)
  /\ UNCHANGED <<timeNow, timeInstant, hookVars, usersVars, nodesVars, windowVars, sortVars, panelVars>>

ClientLastSeenRendered ==
  /\ timeFormatter' = "formatTimeAgo"
  /\ timeText' = formatTimeAgo(timeNow, timeInstant)
  /\ UNCHANGED <<timeNow, timeInstant, hookVars, usersVars, nodesVars, windowVars, sortVars, panelVars>>

ExpiryDateRendered ==
  /\ timeFormatter' = "useRelativeExpiryDate"
  /\ timeText' = useRelativeExpiryDate(timeNow, timeInstant)
  /\ UNCHANGED <<timeNow, timeInstant, hookVars, usersVars, nodesVars, windowVars, sortVars, panelVars>>

NextTime ==
  \/ OnlineStatusRendered
  \/ OnlineBadgeTooltipShown
  \/ ClientLastSeenRendered
  \/ ExpiryDateRendered

SpecTime == InitTime /\ [][NextTime]_vars

\* The unit a translation key names.
UnitOfKey(key) ==
  CASE key \in {"year", "years"} -> "year"
    [] key \in {"month", "months"} -> "month"
    [] key \in {"day", "days"} -> "day"
    [] key \in {"hour", "hours"} -> "hour"
    [] key \in {"min", "mins"} -> "minute"
    [] key \in {"second", "seconds"} -> "second"

\* The units of the text rendered last.
RenderedUnits == [i \in 1..Len(timeText.parts) |-> UnitOfKey(timeText.parts[i].unit)]

\* The non-zero units among years, months and days between the two instants
\* rendered last, the largest first.
NonZeroCalendarUnits ==
  Bind(CalendarParts(IF timeNow > timeInstant THEN timeNow ELSE timeInstant,
                     IF timeNow > timeInstant THEN timeInstant ELSE timeNow),
       LAMBDA p : (IF p.years > 0 THEN <<"year">> ELSE <<>>) \o
                  (IF p.months > 0 THEN <<"month">> ELSE <<>>) \o
                  (IF p.days > 0 THEN <<"day">> ELSE <<>>))

\* C19: a rendered duration has at most two units; if one of years, months
\* and days is non-zero they are the largest non-zero ones of these three,
\* and otherwise they are hours, minutes or seconds.
C19_AtMostTwoLargestUnits ==
  (timeFormatter # "" /\ timeText.state = "") =>
    /\ Len(RenderedUnits) <= 2
    /\ \E largest \in {NonZeroCalendarUnits} :
         IF largest # <<>>
         THEN /\ Len(RenderedUnits) >= 1
              /\ Len(RenderedUnits) <= Len(largest)
              /\ RenderedUnits = SubSeq(largest, 1, Len(RenderedUnits))
         ELSE \A i \in 1..Len(RenderedUnits) :
                RenderedUnits[i] \in {"hour", "minute", "second"}

\* C20: two instants less than 60 seconds apart are rendered as the state
\* 'online' or 'just now', never as a duration.
C20_UnderAMinuteIsAState ==
  (timeFormatter # "" /\ Abs(timeNow - timeInstant) < 60) =>
    timeText.state \in {"online", "justNow"}


(***************************************************************************)
(* Relative-time formatting of an instant 90 days in the past, by the      *)
(* formatters that show one unit.                                          *)
(***************************************************************************)
\* The short text of the username cell: `${years}y`, `${months}mo`, ...
ShortUnitText(p) ==
  IF p.years > 0 THEN DurationText(<<[n |-> p.years, unit |-> "y"]>>, FALSE)
  ELSE IF p.months > 0 THEN DurationText(<<[n |-> p.months, unit |-> "mo"]>>, FALSE)
  ELSE IF p.days > 0 THEN DurationText(<<[n |-> p.days, unit |-> "d"]>>, FALSE)
  ELSE IF p.hours > 0 THEN DurationText(<<[n |-> p.hours, unit |-> "h"]>>, FALSE)
  ELSE IF p.minutes > 0 THEN DurationText(<<[n |-> p.minutes, unit |-> "m"]>>, FALSE)
  ELSE DurationText(<<[n |-> p.seconds, unit |-> "s"]>>, FALSE)

\* getOnlineTimeText of the username cell, for an online_at that is set; null
\* is the text without a state and without parts
getOnlineTimeText(currentTime, lastOnlineTime) ==
  LET diffInSeconds == dayjsDiff(currentTime, lastOnlineTime, "second")
      isOnline == diffInSeconds <= 60
  IN  IF isOnline THEN NoText
      ELSE Bind(CalendarParts(currentTime, lastOnlineTime), ShortUnitText)

\* The renders followed: now is noon of a day from 1 January 2024 on ...
MaxNowDay == 730

\* 90 days, in seconds
NinetyDays == 90 * SecondsADay

NinetyDayNows ==
  {InstantOf(2024, 0, 1, 12 * SecondsAnHour) + day * SecondsADay : day \in 0..MaxNowDay}

\* ... and the instant of the row lies 90 days before it.
InitNinetyDays ==
  /\ HookInit("")
  /\ UsersAbsent
  /\ NodesAbsent
  /\ WindowAbsent
  /\ SortAbsent
  /\ PanelAbsent
  /\ timeNow \in NinetyDayNows
  /\ timeInstant = timeNow - NinetyDays
  /\ timeFormatter = ""
  /\ timeText = NoText

OnlineTimeCellRendered ==
  /\ timeFormatter' = "getOnlineTimeText"
  /\ timeText' = getOnlineTimeText(timeNow, timeInstant)
  /\ UNCHANGED <<timeNow, timeInstant, hookVars, usersVars, nodesVars, windowVars, sortVars, panelVars>>

NextNinetyDays ==
  \/ OnlineStatusRendered
  \/ OnlineTimeCellRendered
  \/ ClientLastSeenRendered

SpecNinetyDays == InitNinetyDays /\ [][NextNinetyDays]_vars

\* The text rendered last shows `n` months and nothing else.
ShowsMonths(n) ==
  /\ timeText.state = ""
  /\ Len(timeText.parts) = 1
  /\ timeText.parts[1].n = n
  /\ timeText.parts[1].unit \in {"month", "months", "mo"}

\* C21: an instant 90 days in the past is rendered as 2 months or as 3
\* months, as the lengths of the months in between have it, and never in
\* days.
C21_NinetyDaysIsTwoOrThreeMonths ==
  (timeFormatter # "" /\ timeNow - timeInstant = NinetyDays) =>
    ShowsMonths(2) \/ ShowsMonths(3)

\* On 1 April 2025 OnlineStatus shows 1 January 2025, 90 days earlier, as
\* '3 months ago'.
C21_Witness ==
  /\ timeFormatter = "OnlineStatus"
  /\ timeNow = InstantOf(2025, 3, 1, 12 * SecondsAnHour)
  /\ timeNow - timeInstant = NinetyDays
  /\ timeText = DurationText(<<[n |-> 3, unit |-> "months"]>>, TRUE)

\* C21 as stated: an instant 90 days in the past is rendered as 3 months.
C21_AsStated ==
  (timeFormatter # "" /\ timeNow - timeInstant = NinetyDays) =>
    ShowsMonths(3)


(***************************************************************************)
(* The users filter bar's auto-refresh.  The bar keeps the interval in     *)
(* state, seeded from the persisted preference; one effect owns the        *)
(* setInterval timer and another the document's visibilitychange listener, *)
(* both re-run when the interval changes and both cleaned up on unmount.   *)
(* An action is the handler, the re-render and the effects that follow.    *)
(***************************************************************************)
autoRefreshOptions == {0, 5, 15, 30, 60}

MaxRefetchCalls == 2

RefetchCall(isAutoRefresh, by) == [isAutoRefresh |-> isAutoRefresh, by |-> by]

\* refetchUsers(showLoading, isAutoRefresh): one more call that has not settled.
refetchUsers(calls, isAutoRefresh, by) == Append(calls, RefetchCall(isAutoRefresh, by))

\* A cleanup that leaves its timer running.
clearIntervalForgotten(timers, seconds) == timers

\* clearInterval(intervalId): the timer the effect had set is gone.
clearInterval(timers, seconds) ==
  IF \E i \in 1..Len(timers) : timers[i] = seconds
  THEN LET first == CHOOSE i \in 1..Len(timers) :
                      timers[i] = seconds /\ \A j \in 1..(i - 1) : timers[j] # seconds
       IN  SubSeq(timers, 1, first - 1) \o SubSeq(timers, first + 1, Len(timers))
  ELSE timers

\* The interval effect's body: no timer while the interval is 0.
IntervalEffect(timers, interval) ==
  IF interval = 0 THEN timers ELSE Append(timers, interval)

\* The interval effect's cleanup; the effect set no timer when its interval was 0.
IntervalCleanup(timers, interval) ==
  IF interval = 0 THEN timers ELSE clearInterval(timers, interval)

\* A listener that refreshes when the tab goes away.
VisibilityRefetchesWhenHidden(state, interval) == state = "hidden" /\ interval > 0

\* handleVisibilityChange's condition, with the interval of the render that
\* registered the listener.
VisibilityRefetches(state, interval) == state = "visible" /\ interval > 0

InitRefresh ==
  /\ HookInit("")
  /\ UsersAbsent
  /\ NodesAbsent
  /\ WindowAbsent
  /\ SortAbsent
  /\ TimeAbsent
  /\ FormAbsent
  /\ BulkAbsent
  /\ filtersMounted = FALSE
  /\ autoRefreshInterval = 0
  /\ persistedInterval \in autoRefreshOptions
  /\ visibilityState = "visible"
  /\ intervalTimers = <<>>
  /\ refetchCalls = <<>>

RefreshOthersUnchanged ==
  UNCHANGED <<hookVars, usersVars, nodesVars, windowVars, sortVars, timeVars, formVars,
              bulkVars>>

\* The bar mounts: the state is seeded from the preference, the mount effect
\* reads the same preference again, and the two effects run.
FiltersMounts ==
  /\ ~filtersMounted
  /\ filtersMounted' = TRUE
  /\ autoRefreshInterval' = persistedInterval
  /\ intervalTimers' = IntervalEffect(intervalTimers, persistedInterval)
  /\ UNCHANGED <<persistedInterval, visibilityState, refetchCalls>>
  /\ RefreshOthersUnchanged

\* The bar unmounts: both cleanups run and the state is gone.
FiltersUnmounts ==
  /\ filtersMounted
  /\ filtersMounted' = FALSE
  /\ autoRefreshInterval' = 0
  /\ intervalTimers' = IntervalCleanup(intervalTimers, autoRefreshInterval)
  /\ UNCHANGED <<persistedInterval, visibilityState, refetchCalls>>
  /\ RefreshOthersUnchanged

\* handleAutoRefreshChange(seconds).  An unchanged value renders nothing anew,
\* so the effects are left as they are.
handleAutoRefreshChange ==
  /\ filtersMounted
  /\ \E seconds \in autoRefreshOptions :
       /\ persistedInterval' = seconds
       /\ autoRefreshInterval' = seconds
       /\ intervalTimers' =
            IF seconds = autoRefreshInterval THEN intervalTimers
            ELSE IntervalEffect(IntervalCleanup(intervalTimers, autoRefreshInterval), seconds)
  /\ UNCHANGED <<filtersMounted, visibilityState, refetchCalls>>
  /\ RefreshOthersUnchanged

\* A live timer's period elapses: refetchUsers(true, true).
IntervalElapses ==
  /\ intervalTimers # <<>>
  /\ Len(refetchCalls) < MaxRefetchCalls
  /\ refetchCalls' = refetchUsers(refetchCalls, TRUE, "interval")
  /\ UNCHANGED <<filtersMounted, autoRefreshInterval, persistedInterval, visibilityState,
                 intervalTimers>>
  /\ RefreshOthersUnchanged

\* handleRefreshClick: refetchUsers(true, false).
handleRefreshClick ==
  /\ filtersMounted
  /\ Len(refetchCalls) < MaxRefetchCalls
  /\ refetchCalls' = refetchUsers(refetchCalls, FALSE, "click")
  /\ UNCHANGED <<filtersMounted, autoRefreshInterval, persistedInterval, visibilityState,
                 intervalTimers>>
  /\ RefreshOthersUnchanged

\* The document's visibility changes; the listener, if there is one, runs.
handleVisibilityChange ==
  /\ Len(refetchCalls) < MaxRefetchCalls
  /\ visibilityState' = IF visibilityState = "visible" THEN "hidden" ELSE "visible"
  /\ refetchCalls' =
       IF filtersMounted /\ VisibilityRefetches(visibilityState', autoRefreshInterval)
       THEN refetchUsers(refetchCalls, TRUE, "visibilitychange")
       ELSE refetchCalls
  /\ UNCHANGED <<filtersMounted, autoRefreshInterval, persistedInterval, intervalTimers>>
  /\ RefreshOthersUnchanged

\* The oldest refetch settles.
RefetchSettles ==
  /\ refetchCalls # <<>>
  /\ refetchCalls' = Tail(refetchCalls)
  /\ UNCHANGED <<filtersMounted, autoRefreshInterval, persistedInterval, visibilityState,
                 intervalTimers>>
  /\ RefreshOthersUnchanged

NextRefresh ==
  \/ FiltersMounts
  \/ FiltersUnmounts
  \/ handleAutoRefreshChange
  \/ IntervalElapses
  \/ handleRefreshClick
  \/ handleVisibilityChange
  \/ RefetchSettles

SpecRefresh == InitRefresh /\ [][NextRefresh]_vars

TabBecomesVisible == visibilityState = "hidden" /\ visibilityState' = "visible"

VisibilityRefetchAdded ==
  refetchCalls' = Append(refetchCalls, RefetchCall(TRUE, "visibilitychange"))

\* C22: whenever the tab becomes visible again after having been hidden while
\* the filter bar is mounted and the auto-refresh interval is not 0 (off), the
\* users list triggers a refresh of its data.
C22_VisibleAgainRefreshesUnlessOff ==
  [][(filtersMounted /\ TabBecomesVisible /\ autoRefreshInterval # 0) =>
       VisibilityRefetchAdded]_vars

\* The tab has come back with a 15-second interval, and the listener's
\* refetch is the one call in flight.
C22_Witness ==
  /\ filtersMounted
  /\ autoRefreshInterval = 15
  /\ visibilityState = "visible"
  /\ refetchCalls = <<RefetchCall(TRUE, "visibilitychange")>>

\* C22 as stated: every return of the tab triggers a refresh.
C22_AsStated == [][(filtersMounted /\ TabBecomesVisible) => VisibilityRefetchAdded]_vars


\* C27: at most one auto-refresh interval timer exists at any time: the one
\* that exists runs at the current interval setting, none is left after the
\* setting changed or the bar was torn down, and none exists while the
\* interval is 0 (off).
C27_AtMostOneIntervalTimer ==
  /\ Len(intervalTimers) <= 1
  /\ \A i \in 1..Len(intervalTimers) : filtersMounted /\ intervalTimers[i] = autoRefreshInterval
  /\ autoRefreshInterval = 0 => intervalTimers = <<>>

\* A timer ran and fired, and then the interval was set to 0: the call it made
\* is still in flight and no timer is left.
C27_Witness ==
  /\ filtersMounted
  /\ autoRefreshInterval = 0
  /\ persistedInterval = 0
  /\ intervalTimers = <<>>
  /\ refetchCalls = <<RefetchCall(TRUE, "interval")>>


(***************************************************************************)
(* The subscription-settings form.  form.handleSubmit(onSubmit, onInvalid) *)
(* calls onInvalid with the resolver's errors: an object keyed by field in *)
(* the schema's order, a field error being an object with a type and a     *)
(* message, the applications' errors an array with a hole for every        *)
(* application without an error.                                           *)
(***************************************************************************)
Str(text) == [kind |-> "string", text |-> text, items |-> <<>>]

Item(key, value) == [key |-> key, value |-> value]

Obj(items) == [kind |-> "object", text |-> "", items |-> items]

Arr(values) ==
  [kind |-> "array", text |-> "", items |-> [i \in 1..Len(values) |-> Item("", values[i])]]

FieldError(type, message) == Obj(<<Item("type", Str(type)), Item("message", Str(message))>>)

\* errObj?.key
Get(errObj, key) ==
  IF errObj.kind = "object" /\ \E i \in 1..Len(errObj.items) : errObj.items[i].key = key
  THEN errObj.items[CHOOSE i \in 1..Len(errObj.items) : errObj.items[i].key = key].value
  ELSE Undefined

\* JavaScript's truthiness of a value.
TruthyValue(value) == value.kind # "undefined" /\ ~(value.kind = "string" /\ value.text = "")

isArray(value) == value.kind = "array"

\* errObj.message && typeof errObj.message === 'string'
HasMessage(errObj) == Get(errObj, "message").kind = "string" /\ Get(errObj, "message").text # ""

RECURSIVE extractFirstMessage(_)
RECURSIVE FirstMessageOf(_)
\* for (const item of ...) { const msg = extractFirstMessage(item); if (msg) return msg }
FirstMessageOf(items) ==
  IF Len(items) = 0 THEN Undef
  ELSE Bind(extractFirstMessage(items[1].value),
            LAMBDA msg : IF msg # Undef THEN msg ELSE FirstMessageOf(Tail(items)))

extractFirstMessage(errObj) ==
  IF ~TruthyValue(errObj) THEN Undef
  ELSE IF isArray(errObj) THEN FirstMessageOf(errObj.items)
  ELSE IF errObj.kind = "object"
       THEN IF HasMessage(errObj) THEN Get(errObj, "message").text
            ELSE FirstMessageOf(errObj.items)
  ELSE Undef

\* t(key, { field: t(fieldKey) })
T(key, field) == [key |-> key, field |-> field, message |-> ""]

\* A toast that shows a message of the errors as it is.
Verbatim(message) == [key |-> "", field |-> "", message |-> message]

RequiredApplicationName == T("validation.required", "settings.subscriptions.applications.name")

DownloadLinksRequired == T("settings.subscriptions.applications.downloadLinksRequired", "")

RequiredDownloadLinkName ==
  T("validation.required", "settings.subscriptions.applications.downloadLinkName")

ValidationUrl == T("validation.url", "")

FormHasErrors == T("validation.formHasErrors", "")

\* The per-link loop of onInvalid: the toast of the first link with a name or
\* a url error, from link j on.
RECURSIVE LinkToast(_, _)
LinkToast(links, j) ==
  IF j > Len(links) THEN <<>>
  ELSE IF TruthyValue(Get(links[j].value, "name")) THEN <<RequiredDownloadLinkName>>
  ELSE IF TruthyValue(Get(links[j].value, "url")) THEN <<ValidationUrl>>
  ELSE LinkToast(links, j + 1)

\* The loop over the applications' errors: the toast of the first application
\* with one of the errors the handler knows, from application i on.
RECURSIVE ApplicationToast(_, _)
ApplicationToast(appsErrors, i) ==
  IF i > Len(appsErrors) THEN <<>>
  ELSE LET appErr == appsErrors[i].value
           download_links == Get(appErr, "download_links")
       IN  IF TruthyValue(Get(appErr, "name")) THEN <<RequiredApplicationName>>
           ELSE IF HasMessage(download_links) THEN <<DownloadLinksRequired>>
           ELSE IF isArray(download_links) /\ LinkToast(download_links.items, 1) # <<>>
                THEN LinkToast(download_links.items, 1)
           ELSE ApplicationToast(appsErrors, i + 1)

\* The toast of the last lines of onInvalid.
FallbackToast(errors) ==
  IF extractFirstMessage(errors) # Undef THEN <<Verbatim(extractFirstMessage(errors))>>
  ELSE <<FormHasErrors>>

\* A handler whose specific branches do not return.
onInvalidFallingThrough(errors) ==
  LET appsErrors == Get(errors, "applications")
  IN  (IF isArray(appsErrors) THEN ApplicationToast(appsErrors.items, 1) ELSE <<>>)
        \o FallbackToast(errors)

\* onInvalid(errors): the toasts it shows.
onInvalid(errors) ==
  LET appsErrors == Get(errors, "applications")
  IN  IF isArray(appsErrors) /\ ApplicationToast(appsErrors.items, 1) # <<>>
      THEN ApplicationToast(appsErrors.items, 1)
      ELSE FallbackToast(errors)

\* The messages of the schema that the inputs use; "" is a message left empty.
UrlMessage == "Please enter a valid URL"
AnnounceMessage == "Announcement must be 128 characters or less"
ApplicationNameMessage == "Application name must be 32 characters or less"
LinkNameMessage == "Download link name is required"
DownloadLinksMessage == "At least one download link is required"
ImportUrlMessage == "Import URL must contain {url} placeholder for URL replacement"

\* The errors of one download link: none (a hole), or on its name or its url.
LinkErrors ==
  { Undefined,
    Obj(<<Item("name", FieldError("too_small", LinkNameMessage))>>),
    Obj(<<Item("url", FieldError("invalid_string", UrlMessage))>>) }

\* The errors of one application: none (a hole), or on one of its fields.
ApplicationErrors ==
  { Undefined,
    Obj(<<Item("name", FieldError("too_big", ApplicationNameMessage))>>),
    Obj(<<Item("import_url", FieldError("custom", ImportUrlMessage))>>),
    Obj(<<Item("import_url", FieldError("custom", ""))>>),
    Obj(<<Item("download_links", FieldError("too_small", DownloadLinksMessage))>>) }
  \cup { Obj(<<Item("download_links", Arr(<<first, second>>))>>) :
           first \in LinkErrors, second \in LinkErrors \ {Undefined} }

\* The errors of the fields before the applications, in the schema's order.
FieldErrorsBefore ==
  { <<>>,
    <<Item("support_url", FieldError("invalid_string", UrlMessage))>>,
    <<Item("announce", FieldError("too_big", AnnounceMessage))>>,
    <<Item("support_url", FieldError("invalid_string", "")),
      Item("announce", FieldError("too_big", AnnounceMessage))>> }

\* The applications' errors: one application, or two of which the second has
\* an error the first may hide.
ApplicationsErrors ==
  { <<>> }
  \cup { <<Item("applications", Arr(<<first>>))>> : first \in ApplicationErrors \ {Undefined} }
  \cup { <<Item("applications", Arr(<<first, second>>))>> :
           first \in ApplicationErrors,
           second \in { Obj(<<Item("name", FieldError("too_big", ApplicationNameMessage))>>),
                        Obj(<<Item("import_url", FieldError("custom", ImportUrlMessage))>>) } }

FormErrorsInputs ==
  { Obj(before \o apps) : before \in FieldErrorsBefore, apps \in ApplicationsErrors } \ {Obj(<<>>)}

InitForm ==
  /\ HookInit("")
  /\ UsersAbsent
  /\ NodesAbsent
  /\ WindowAbsent
  /\ SortAbsent
  /\ TimeAbsent
  /\ RefreshAbsent
  /\ BulkAbsent
  /\ formErrors \in FormErrorsInputs
  /\ toasts = <<>>

\* The form is submitted and the resolver reports the errors: onInvalid runs.
FormSubmittedInvalid ==
  /\ toasts = <<>>
  /\ toasts' = onInvalid(formErrors)
  /\ UNCHANGED <<formErrors, hookVars, usersVars, nodesVars, windowVars, sortVars, timeVars,
                 refreshVars, bulkVars>>

NextForm == FormSubmittedInvalid

SpecForm == InitForm /\ [][NextForm]_vars

\* Every human-readable message of the structure, in the order a depth-first
\* walk meets them: an object's own message, then what is under its keys.
RECURSIVE MessagesDepthFirst(_)
RECURSIVE MessagesUnder(_)
MessagesUnder(items) ==
  IF Len(items) = 0 THEN <<>>
  ELSE MessagesDepthFirst(items[1].value) \o MessagesUnder(Tail(items))

MessagesDepthFirst(value) ==
  (IF HasMessage(value) THEN <<Get(value, "message").text>> ELSE <<>>)
    \o MessagesUnder(value.items)

\* One of the applications has an error the handler has a text of its own for.
HasKnownApplicationError ==
  \E i \in 1..Len(Get(formErrors, "applications").items) :
    LET appErr == Get(formErrors, "applications").items[i].value
        download_links == Get(appErr, "download_links")
    IN  \/ Get(appErr, "name") # Undefined
        \/ Get(download_links, "message") # Undefined
        \/ \E j \in 1..Len(download_links.items) :
             \/ Get(download_links.items[j].value, "name") # Undefined
             \/ Get(download_links.items[j].value, "url") # Undefined

Submitted == toasts # <<>>

\* C23: when the subscription-settings form is submitted with validation
\* errors, exactly one error toast is shown; unless an application has an
\* error on its name, on its download links or on a link's name or url, its
\* text is the first human-readable message found by a depth-first search
\* through the nested error structure, if there is one.
C23_OneToastFirstMessage ==
  Submitted =>
    /\ Len(toasts) = 1
    /\ (~HasKnownApplicationError /\ MessagesDepthFirst(formErrors) # <<>>) =>
         toasts[1] = Verbatim(MessagesDepthFirst(formErrors)[1])

\* The second application's import URL is the first error with a message,
\* and the toast shows it.
C23_Witness ==
  /\ formErrors = Obj(<<Item("support_url", FieldError("invalid_string", "")),
                        Item("announce", FieldError("too_big", AnnounceMessage)),
                        Item("applications",
                             Arr(<<Obj(<<Item("import_url", FieldError("custom", ""))>>),
                                   Obj(<<Item("import_url", FieldError("custom", ImportUrlMessage))>>)>>))>>)
  /\ toasts = <<Verbatim(AnnounceMessage)>>

\* C23 as stated: the one toast always shows the first message of the walk.
C23_AsStated ==
  Submitted =>
    /\ Len(toasts) = 1
    /\ MessagesDepthFirst(formErrors) # <<>> =>
         toasts[1] = Verbatim(MessagesDepthFirst(formErrors)[1])


(***************************************************************************)
(* The users table: the mount guard and the sort lock.                     *)
(***************************************************************************)
Mounting == phase = "constructed" /\ phase' = "mounted"

\* C24: the mount guard is set when the table mounts, before the State->URL
\* effect runs for the first time, and only its 100 ms timer clears it; while
\* it is set no State->URL write is performed (the URL changes only when the
\* user navigates), so mounting leaves the URL's query parameters as they were.
C24_MountGuardStopsUrlWrites ==
  [][/\ Mounting => isInitializingFromURLRef' /\ url' = url
     /\ (isInitializingFromURLRef /\ ~isInitializingFromURLRef') => MountGuardExpires
     /\ (isInitializingFromURLRef /\ url' # url) => HashChanged]_vars

\* The table was opened on ?search=a&page=2; on mount the filter bar's effect
\* reset the search and the page, and a status was chosen while the guard was
\* set: the URL is still the one the table was opened on.
C24_Witness ==
  /\ phase = "mounted"
  /\ isInitializingFromURLRef
  /\ guardEvents = 1
  /\ url.search = "a" /\ url.page = "2" /\ url.status = Undef
  /\ currentPage = 0
  /\ filters.status = "active"


\* C25: after a sort click has been accepted, no handleSort call made while
\* the 100 ms lock is held changes the sort field, so of two clicks on the
\* same column within the lock period only the first changes it.
C25_SortLockHoldsSortField == [][isSorting => filters'.sort = filters.sort]_vars

\* The first click on username was accepted and the lock is held: the sort
\* field is username, as one click (and not two) leaves it.
C25_Witness ==
  /\ isSorting
  /\ headerClicks = [column |-> "username", before |-> DefaultSort, count |-> 1]
  /\ filters.sort = "username"


(***************************************************************************)
(* The pagination window: its symmetry.                                    *)
(***************************************************************************)
\* The range read from the last page backwards: the order reversed and each
\* page p replaced by total - 1 - p, an ellipsis staying an ellipsis.
MirrorImage(range, total) ==
  [i \in 1..Len(range) |->
     IF range[Len(range) + 1 - i] = ELLIPSIS THEN ELLIPSIS
     ELSE total - 1 - range[Len(range) + 1 - i]]

\* C26: for totalPages > 5 and a current page c among the pages, the window
\* computed for currentPage = totalPages - 1 - c is the mirror image of the
\* window computed for currentPage = c.
C26_WindowMirrorSymmetry ==
  (windowTotalPages > 5 /\ windowCurrentPage \in 0..(windowTotalPages - 1)) =>
    getPaginationRange(windowTotalPages - 1 - windowCurrentPage, windowTotalPages)
      = MirrorImage(paginationRange, windowTotalPages)


(***************************************************************************)
(* The bulk operations wizard.  BulkFlow keeps the step, the entered       *)
(* values and the selections in state; Apply opens a confirmation dialog,  *)
(* Confirm hands the payload to the mutation, whose onSuccess resets the   *)
(* wizard and whose onError closes the dialog.  The searches of the        *)
(* panels are left empty, so every fetched item is listed.                 *)
(***************************************************************************)
\* The ids the server lists.
GroupIds == <<1, 2>>
UserIds == <<1>>
AdminIds == <<1>>

Flows == {"none", "xtls-rprx-vision"}
Methods == {"aes-128-gcm"}

\* array.includes(id)
includes(array, id) == \E i \in 1..Len(array) : array[i] = id

\* array.filter(x => x !== id)
without(array, id) == SelectSeq(array, LAMBDA x : x # id)

\* filteredGroups, with no search
filteredGroups == GroupIds

\* filteredHasGroups: in a groups operation the selected groups are not listed
filteredHasGroups(w) ==
  SelectSeq(GroupIds, LAMBDA id : ~(w.operationType = "groups" /\ includes(w.selectedGroups, id)))

\* SelectorPanel's handleItemToggle, and the CommandItem's onSelect
handleItemToggle(selected, id) ==
  IF includes(selected, id) THEN without(selected, id) ELSE Append(selected, id)

canProceedToNext(w) ==
  IF w.currentStep = 1
  THEN IF w.operationType = "proxy" THEN w.selectedFlow # Undef \/ w.selectedMethod # Undef
       ELSE Len(w.selectedGroups) > 0
  ELSE IF w.currentStep = 2
  THEN IF w.operationType = "proxy" THEN w.selectedFlow # Undef \/ w.selectedMethod # Undef
       ELSE Len(w.selectedUsers) > 0 \/ Len(w.selectedAdmins) > 0
              \/ Len(w.selectedHasGroups) > 0
  ELSE TRUE

nextStep(w) == IF w.currentStep < 3 THEN [w EXCEPT !.currentStep = @ + 1] ELSE w

prevStep(w) == IF w.currentStep > 1 THEN [w EXCEPT !.currentStep = @ - 1] ELSE w

\* handleApply: the dialog opens, unless a removal has no target at all
handleApply(w) ==
  LET totalTargets == Len(w.selectedUsers) + Len(w.selectedAdmins) + Len(w.selectedGroups)
                        + Len(w.selectedHasGroups)
  IN  IF w.operationType = "groups" /\ w.groupsOperation = "remove" /\ totalTargets = 0
      THEN w
      ELSE [w EXCEPT !.showConfirmDialog = TRUE]

\* confirmApply's payload
Payload(w) ==
  IF w.operationType = "proxy"
  THEN [group_ids |-> w.selectedGroups, has_group_ids |-> <<>>,
        users |-> w.selectedUsers, admins |-> w.selectedAdmins,
        flow |-> IF w.selectedFlow = "none" THEN "" ELSE w.selectedFlow,
        method |-> w.selectedMethod]
  ELSE [group_ids |-> w.selectedGroups, has_group_ids |-> w.selectedHasGroups,
        users |-> w.selectedUsers, admins |-> w.selectedAdmins,
        flow |-> Undef, method |-> Undef]

\* onSuccess: the wizard starts over (the groups operation is kept)
onSuccess(w) ==
  [w EXCEPT !.currentStep = 1, !.selectedFlow = Undef, !.selectedMethod = Undef,
            !.selectedGroups = <<>>, !.selectedUsers = <<>>, !.selectedAdmins = <<>>,
            !.selectedHasGroups = <<>>, !.showConfirmDialog = FALSE]

\* An onError that starts the wizard over as onSuccess does.
onErrorStartingOver(w) == onSuccess(w)

\* onError: the toast, and the dialog closes
onError(w) == [w EXCEPT !.showConfirmDialog = FALSE]

InitBulk ==
  /\ HookInit("")
  /\ UsersAbsent
  /\ NodesAbsent
  /\ WindowAbsent
  /\ SortAbsent
  /\ TimeAbsent
  /\ RefreshAbsent
  /\ FormAbsent
  /\ \E operationType \in {"groups", "proxy"} : wizard = NewWizard(operationType)
  /\ bulkMutation = [status |-> "idle", payload |-> NoPayload]

BulkOthersUnchanged ==
  UNCHANGED <<hookVars, usersVars, nodesVars, windowVars, sortVars, timeVars, refreshVars,
              formVars>>

\* The wizard behind the confirmation dialog cannot be reached while it is open.
WizardStep(step) == wizard.currentStep = step /\ ~wizard.showConfirmDialog

\* Step 1 of a proxy operation: a flow or a method is chosen.
FlowChosen ==
  /\ WizardStep(1) /\ wizard.operationType = "proxy"
  /\ \E flow \in Flows : wizard' = [wizard EXCEPT !.selectedFlow = flow]
  /\ UNCHANGED bulkMutation
  /\ BulkOthersUnchanged

MethodChosen ==
  /\ WizardStep(1) /\ wizard.operationType = "proxy"
  /\ \E method \in Methods : wizard' = [wizard EXCEPT !.selectedMethod = method]
  /\ UNCHANGED bulkMutation
  /\ BulkOthersUnchanged

\* Step 1 of a groups operation: add or remove.
GroupsOperationChosen ==
  /\ WizardStep(1) /\ wizard.operationType = "groups"
  /\ \E value \in {"add", "remove"} : wizard' = [wizard EXCEPT !.groupsOperation = value]
  /\ UNCHANGED bulkMutation
  /\ BulkOthersUnchanged

\* A group is toggled: in step 1 of a groups operation, or in the groups panel
\* of step 2 of another operation.
GroupToggled ==
  /\ \/ WizardStep(1) /\ wizard.operationType = "groups"
     \/ WizardStep(2) /\ wizard.operationType # "groups"
  /\ \E i \in 1..Len(filteredGroups) :
       wizard' = [wizard EXCEPT !.selectedGroups = handleItemToggle(@, filteredGroups[i])]
  /\ UNCHANGED bulkMutation
  /\ BulkOthersUnchanged

\* Select all / deselect all of the groups of step 1.
AllGroupsToggled ==
  /\ WizardStep(1) /\ wizard.operationType = "groups"
  /\ wizard' = [wizard EXCEPT !.selectedGroups =
                  IF \A i \in 1..Len(filteredGroups) : includes(@, filteredGroups[i])
                  THEN <<>> ELSE filteredGroups]
  /\ UNCHANGED bulkMutation
  /\ BulkOthersUnchanged

\* Step 2 of a groups operation: the has-groups panel, an item or select all
\* or deselect all.
HasGroupToggled ==
  /\ WizardStep(2) /\ wizard.operationType = "groups"
  /\ \/ \E i \in 1..Len(filteredHasGroups(wizard)) :
          wizard' = [wizard EXCEPT !.selectedHasGroups =
                       handleItemToggle(@, filteredHasGroups(wizard)[i])]
     \/ wizard' = [wizard EXCEPT !.selectedHasGroups = filteredHasGroups(wizard)]
     \/ wizard' = [wizard EXCEPT !.selectedHasGroups = <<>>]
  /\ UNCHANGED bulkMutation
  /\ BulkOthersUnchanged

UserToggled ==
  /\ WizardStep(2)
  /\ \E i \in 1..Len(UserIds) :
       wizard' = [wizard EXCEPT !.selectedUsers = handleItemToggle(@, UserIds[i])]
  /\ UNCHANGED bulkMutation
  /\ BulkOthersUnchanged

AdminToggled ==
  /\ WizardStep(2)
  /\ \E i \in 1..Len(AdminIds) :
       wizard' = [wizard EXCEPT !.selectedAdmins = handleItemToggle(@, AdminIds[i])]
  /\ UNCHANGED bulkMutation
  /\ BulkOthersUnchanged

\* Next, enabled while canProceedToNext() and before step 3
NextClicked ==
  /\ ~wizard.showConfirmDialog
  /\ wizard.currentStep < 3 /\ canProceedToNext(wizard)
  /\ wizard' = nextStep(wizard)
  /\ UNCHANGED bulkMutation
  /\ BulkOthersUnchanged

\* Previous, rendered after step 1
PreviousClicked ==
  /\ ~wizard.showConfirmDialog
  /\ wizard.currentStep > 1
  /\ wizard' = prevStep(wizard)
  /\ UNCHANGED bulkMutation
  /\ BulkOthersUnchanged

\* Apply Operation, the button of step 3
ApplyClicked ==
  /\ WizardStep(3) /\ canProceedToNext(wizard)
  /\ wizard' = handleApply(wizard)
  /\ UNCHANGED bulkMutation
  /\ BulkOthersUnchanged

\* Cancel in the dialog
DialogCancelled ==
  /\ wizard.showConfirmDialog
  /\ wizard' = [wizard EXCEPT !.showConfirmDialog = FALSE]
  /\ UNCHANGED bulkMutation
  /\ BulkOthersUnchanged

\* Confirm in the dialog, disabled while a mutation is pending.  Whether the
\* dialog's action button also closes the dialog is the dialog component's
\* affair, which BulkFlow does not decide.
confirmApply ==
  /\ wizard.showConfirmDialog
  /\ bulkMutation.status # "pending"
  /\ bulkMutation' = [status |-> "pending", payload |-> Payload(wizard)]
  /\ \E open \in BOOLEAN : wizard' = [wizard EXCEPT !.showConfirmDialog = open]
  /\ BulkOthersUnchanged

MutationSucceeds ==
  /\ bulkMutation.status = "pending"
  /\ bulkMutation' = [bulkMutation EXCEPT !.status = "success"]
  /\ wizard' = onSuccess(wizard)
  /\ BulkOthersUnchanged

MutationFails ==
  /\ bulkMutation.status = "pending"
  /\ bulkMutation' = [bulkMutation EXCEPT !.status = "error"]
  /\ wizard' = onError(wizard)
  /\ BulkOthersUnchanged

NextBulk ==
  \/ FlowChosen
  \/ MethodChosen
  \/ GroupsOperationChosen
  \/ GroupToggled
  \/ AllGroupsToggled
  \/ HasGroupToggled
  \/ UserToggled
  \/ AdminToggled
  \/ NextClicked
  \/ PreviousClicked
  \/ ApplyClicked
  \/ DialogCancelled
  \/ confirmApply
  \/ MutationSucceeds
  \/ MutationFails

SpecBulk == InitBulk /\ [][NextBulk]_vars

disjoint(left, right) == \A i \in 1..Len(left) : ~includes(right, left[i])

\* C28: in a bulk groups operation, selectedHasGroups and selectedGroups are
\* disjoint in every state the wizard reaches, and so are the has_group_ids
\* and the group_ids of every payload submitted.
C28_HasGroupsDisjointFromGroups ==
  wizard.operationType = "groups" =>
    /\ disjoint(wizard.selectedHasGroups, wizard.selectedGroups)
    /\ disjoint(bulkMutation.payload.has_group_ids, bulkMutation.payload.group_ids)

\* C29: when a bulk mutation fails, the confirmation dialog is closed and
\* nothing else of the wizard's state changes: the step, the selections and
\* the entered values are the ones the mutation left behind it.
C29_FailureOnlyClosesDialog ==
  [][(bulkMutation.status = "pending" /\ bulkMutation'.status = "error") =>
       /\ ~wizard'.showConfirmDialog
       /\ wizard' = [wizard EXCEPT !.showConfirmDialog = FALSE]]_vars

\* A removal of group 1 from the users of group 2 has failed: the wizard is
\* on step 3 with everything as it was submitted, and the dialog is closed.
C29_Witness ==
  /\ bulkMutation.status = "error"
  /\ wizard.operationType = "groups"
  /\ wizard.currentStep = 3
  /\ wizard.groupsOperation = "remove"
  /\ ~wizard.showConfirmDialog
  /\ Payload(wizard) = bulkMutation.payload
  /\ wizard.selectedGroups = <<1>>
  /\ wizard.selectedHasGroups = <<2>>


(***************************************************************************)
(* The users table: what returns to the first page.                        *)
(***************************************************************************)
BackToFirstPage == currentPage' = 0 /\ filters'.offset = 0

\* The search term or the protocol searched for is another one; no term is no
\* term, whether '' or undefined.
SearchChanges ==
  \/ OrEmpty(filters'.search) # OrEmpty(filters.search)
  \/ OrEmpty(filters'.proxy_id) # OrEmpty(filters.proxy_id)

\* C30: in the users table a committed or cleared search that changes the
\* search, a status filter change, an advanced-search submit, clearing the
\* advanced filters and a page-size change each leave currentPage and offset
\* at 0, whereas handleSort leaves currentPage and offset as they were.
C30_ResultSetChangesResetPage ==
  [][/\ ((SearchCommitted \/ ClearSearch) /\ SearchChanges) => BackToFirstPage
     /\ StatusFilterChosen => BackToFirstPage
     /\ AdvanceSearchSubmitted => BackToFirstPage
     /\ AdvanceSearchCleared => BackToFirstPage
     /\ ItemsPerPageChosen => BackToFirstPage
     /\ SortClicked => (currentPage' = currentPage /\ filters'.offset = filters.offset)]_vars

\* The table was opened on ?page=2&limit=20 and a status was chosen before
\* the mount guard cleared (the URL still shows where it was): the table is on
\* the first page, offset 0.
C30_Witness ==
  /\ phase = "mounted"
  /\ isInitializingFromURLRef
  /\ guardEvents = 1
  /\ url.page = "2" /\ url.limit = "20" /\ url.search = Undef /\ url.status = Undef
  /\ currentPage = 0
  /\ filters.offset = 0
  /\ filters.limit = 20
  /\ filters.status = "active"

=============================================================================
